---- MODULE Spec2Model ----
(***************************************************************************)
(* Model of the Sanskrit translation pipeline: script detection and        *)
(* normalization, and the orchestration of the LLM and dictionary          *)
(* collaborators by HybridTranslationService, alone or wrapped by          *)
(* NormalizingTranslationService.                                          *)
(*                                                                         *)
(* Conventions.                                                            *)
(*  - A string of the program is a sequence of Unicode code points.        *)
(*    Error messages, words and notes that the program treats as opaque    *)
(*    values are TLA+ strings.                                             *)
(*  - A JavaScript object is a record.  A key whose value is `undefined`   *)
(*    is modelled as a key that is not in the record's DOMAIN, so          *)
(*    `obj.k === undefined` is  "k" \notin DOMAIN obj.                     *)
(*  - An async function runs synchronously up to its first `await`; each   *)
(*    action below is one such synchronous stretch of a translate call.    *)
(***************************************************************************)
EXTENDS Integers, Sequences, FiniteSets, TLC

(***************************************************************************)
(* Bounds of the model.                                                    *)
(***************************************************************************)
MaxLen == 3
MaxWords == 2
NumCalls == 2

AllCalls == 1..NumCalls

SeqsUpTo(S, n) == UNION {[1..k -> S] : k \in 0..n}

(***************************************************************************)
(* Code points.                                                            *)
(***************************************************************************)
DEVANAGARI_RANGE_START == 2304
DEVANAGARI_RANGE_END == 2431

CP_NEWLINE == 10
CP_LATIN_A == 97
CP_LATIN_K == 107
CP_DEVANAGARI_KA == 2325

Alphabet == {CP_NEWLINE, CP_LATIN_A, CP_DEVANAGARI_KA}

Texts == SeqsUpTo(Alphabet, MaxLen)

(***************************************************************************)
(* ScriptDetectorImpl                                                      *)
(***************************************************************************)
isDevanagari(cp) == cp >= DEVANAGARI_RANGE_START /\ cp <= DEVANAGARI_RANGE_END

\* /\p{Script=Latin}/u, restricted to the Basic Multilingual Plane blocks
\* that IAST text draws from.
isLatin(cp) ==
    \/ cp >= 65 /\ cp <= 90
    \/ cp >= 97 /\ cp <= 122
    \/ cp = 170 \/ cp = 186
    \/ cp >= 192 /\ cp <= 214
    \/ cp >= 216 /\ cp <= 246
    \/ cp >= 248 /\ cp <= 696
    \/ cp >= 7680 /\ cp <= 7935

\* Mutant of detectFrom: the test for both scripts is made only in the
\* branch that has just seen a Latin letter.
RECURSIVE detectFromTestsOnLatin(_, _, _, _)
detectFromTestsOnLatin(text, i, hasDevanagari, hasLatin) ==
    IF i > Len(text)
    THEN IF hasDevanagari THEN "devanagari" ELSE "iast"
    ELSE IF isDevanagari(text[i])
    THEN detectFromTestsOnLatin(text, i + 1, TRUE, hasLatin)
    ELSE IF isLatin(text[i])
    THEN IF hasDevanagari THEN "mixed"
         ELSE detectFromTestsOnLatin(text, i + 1, hasDevanagari, TRUE)
    ELSE detectFromTestsOnLatin(text, i + 1, hasDevanagari, hasLatin)

\* Mutant of detectFrom: after the loop, 'iast' is returned only when a
\* Latin letter was seen.
RECURSIVE detectFromIastNeedsLatin(_, _, _, _)
detectFromIastNeedsLatin(text, i, hasDevanagari, hasLatin) ==
    IF i > Len(text)
    THEN IF hasLatin THEN "iast" ELSE "devanagari"
    ELSE LET d == IF isDevanagari(text[i]) THEN TRUE ELSE hasDevanagari
             l == IF ~isDevanagari(text[i]) /\ isLatin(text[i]) THEN TRUE ELSE hasLatin
         IN  IF d /\ l THEN "mixed" ELSE detectFromIastNeedsLatin(text, i + 1, d, l)

RECURSIVE detectFrom(_, _, _, _)
detectFrom(text, i, hasDevanagari, hasLatin) ==
    IF i > Len(text)
    THEN IF hasDevanagari THEN "devanagari" ELSE "iast"
    ELSE LET d == IF isDevanagari(text[i]) THEN TRUE ELSE hasDevanagari
             l == IF ~isDevanagari(text[i]) /\ isLatin(text[i]) THEN TRUE ELSE hasLatin
         IN  IF d /\ l THEN "mixed" ELSE detectFrom(text, i + 1, d, l)

detect(text) == detectFrom(text, 1, FALSE, FALSE)

(***************************************************************************)
(* ScriptConverter.toIast: the Devanagari-to-IAST converter collaborator.  *)
(***************************************************************************)
RECURSIVE toIast(_)
toIast(text) ==
    IF text = << >> THEN << >>
    ELSE (IF isDevanagari(Head(text)) THEN <<CP_LATIN_K, CP_LATIN_A>> ELSE <<Head(text)>>)
         \o toIast(Tail(text))

(***************************************************************************)
(* ScriptNormalizerImpl.normalize                                          *)
(***************************************************************************)
MIXED_SCRIPT_ERROR == "Mixed script input is not supported. Please provide text in either Devanagari or IAST format, not both."

\* Mutant of normalizeTraced: the text is converted before its script is
\* looked at, and the conversion is used only for Devanagari text.
normalizeTracedConvertsFirst(text) ==
    LET converted == toIast(text)
        scriptType == detect(text)
    IN  [returned |->
             IF scriptType = "mixed"
             THEN [success |-> FALSE, error |-> MIXED_SCRIPT_ERROR]
             ELSE IF scriptType = "devanagari"
             THEN [success |-> TRUE, iast |-> converted, originalScript |-> "devanagari"]
             ELSE [success |-> TRUE, iast |-> text, originalScript |-> "iast"],
         toIastCalls |-> <<text>>]

\* Mutant of normalizeTraced: text that is already IAST loses a final line
\* break.
normalizeTracedChompsIast(text) ==
    LET scriptType == detect(text)
    IN  IF scriptType = "mixed"
        THEN [returned |-> [success |-> FALSE, error |-> MIXED_SCRIPT_ERROR],
              toIastCalls |-> << >>]
        ELSE IF scriptType = "devanagari"
        THEN [returned |-> [success |-> TRUE, iast |-> toIast(text),
                            originalScript |-> "devanagari"],
              toIastCalls |-> <<text>>]
        ELSE [returned |-> [success |-> TRUE,
                            iast |-> IF text # << >> /\ text[Len(text)] = CP_NEWLINE
                                     THEN SubSeq(text, 1, Len(text) - 1)
                                     ELSE text,
                            originalScript |-> "iast"],
              toIastCalls |-> << >>]

\* normalize(text): what it returns, and the arguments of the calls it makes
\* to converter.toIast on the way.
normalizeTraced(text) ==
    LET scriptType == detect(text)
    IN  IF scriptType = "mixed"
        THEN [returned |-> [success |-> FALSE, error |-> MIXED_SCRIPT_ERROR],
              toIastCalls |-> << >>]
        ELSE IF scriptType = "devanagari"
        THEN [returned |-> [success |-> TRUE, iast |-> toIast(text),
                            originalScript |-> "devanagari"],
              toIastCalls |-> <<text>>]
        ELSE [returned |-> [success |-> TRUE, iast |-> text, originalScript |-> "iast"],
              toIastCalls |-> << >>]

normalize(text) == normalizeTraced(text).returned

(***************************************************************************)
(* normalizeToLines, and the identical inline expression                   *)
(*   text.split('\n').filter(line => line.trim().length > 0)               *)
(***************************************************************************)
\* White space as String.prototype.trim sees it.
isWhiteSpace(cp) ==
    \/ cp >= 9 /\ cp <= 13
    \/ cp = 32 \/ cp = 160 \/ cp = 5760
    \/ cp >= 8192 /\ cp <= 8202
    \/ cp = 8232 \/ cp = 8233 \/ cp = 8239 \/ cp = 8287
    \/ cp = 12288 \/ cp = 65279

RECURSIVE trimStart(_)
trimStart(line) ==
    IF line # << >> /\ isWhiteSpace(Head(line)) THEN trimStart(Tail(line)) ELSE line

RECURSIVE trimEnd(_)
trimEnd(line) ==
    IF line # << >> /\ isWhiteSpace(line[Len(line)])
    THEN trimEnd(SubSeq(line, 1, Len(line) - 1))
    ELSE line

trim(line) == trimEnd(trimStart(line))

\* String.prototype.split(sep) for a one-code-point separator: the pieces
\* between separators, empty pieces included.
RECURSIVE splitFrom(_, _, _, _)
splitFrom(text, sep, i, cur) ==
    IF i > Len(text) THEN <<cur>>
    ELSE IF text[i] = sep THEN <<cur>> \o splitFrom(text, sep, i + 1, << >>)
    ELSE splitFrom(text, sep, i + 1, Append(cur, text[i]))

split(text, sep) == splitFrom(text, sep, 1, << >>)

\* Mutant of normalizeToLines: the filter tests the line's length without
\* trimming it.
normalizeToLinesUntrimmedTest(text) ==
    SelectSeq(split(text, CP_NEWLINE), LAMBDA line : Len(line) > 0)

normalizeToLines(text) == SelectSeq(split(text, CP_NEWLINE), LAMBDA line : Len(trim(line)) > 0)

(***************************************************************************)
(* JavaScript object helpers.                                              *)
(***************************************************************************)
NoFields == << >>

\* { [key]: obj[key] }, or no field at all when obj[key] is undefined.
Optional(key, obj) == IF key \in DOMAIN obj THEN key :> obj[key] ELSE NoFields

\* Mutant of MapGetOrEmpty: a word the map has no value for falls back to
\* the definitions of any word it has.
MapGetOrAny(map, key) ==
    IF key \in DOMAIN map THEN map[key]
    ELSE IF DOMAIN map = {} THEN << >>
    ELSE map[CHOOSE k \in DOMAIN map : TRUE]

\* Map.prototype.get(key) || []
MapGetOrEmpty(map, key) == IF key \in DOMAIN map THEN map[key] ELSE << >>

EmptyMap == << >>

(***************************************************************************)
(* Values the collaborators can produce.                                   *)
(***************************************************************************)
WORD_KA == <<CP_LATIN_K, CP_LATIN_A>>
WORD_A == <<CP_LATIN_A>>

Words == {WORD_KA, WORD_A}

\* WordEntry values as the LLM client returns them: word, grammaticalForm
\* and meanings, with or without a contextualNote.
LlmEntry(w) ==
    [word |-> w,
     grammaticalForm |-> IF w = WORD_KA THEN "noun" ELSE "particle",
     meanings |-> IF w = WORD_KA THEN <<"who", "what">> ELSE <<"not">>]

LlmEntries ==
    {LlmEntry(w) : w \in Words}
        \cup {("contextualNote" :> "note") @@ LlmEntry(w) : w \in Words}

\* LlmTranslationResponse: words, with or without alternativeTranslations.
LlmResponses ==
    {[words |-> ws] : ws \in SeqsUpTo(LlmEntries, MaxWords)}
        \cup {[words |-> ws, alternativeTranslations |-> <<"alt">>] :
                  ws \in SeqsUpTo(LlmEntries, MaxWords)}

LlmErrors ==
    {[name |-> "Error", message |-> "LLM service unavailable"],
     [name |-> "ClaudeLlmError", message |-> "Failed to parse Claude response"]}

PWG_DEFINITION == [source |-> "PWG Dictionary", definition |-> "union"]

DefinitionLists == {<< >>, <<PWG_DEFINITION>>}

\* Map<string, DictionaryDefinition[]>: any map from some of the words to
\* definition lists.
DictionaryMaps == UNION {[ks -> DefinitionLists] : ks \in SUBSET Words}

DictionaryErrors == {[name |-> "Error", message |-> "Dictionary API unavailable"]}

Services == {"hybrid", "normalizing"}

(***************************************************************************)
(* State of the translate calls.                                           *)
(***************************************************************************)
VARIABLES
    pc,             \* where each call is: idle, awaitLlm, awaitDict, settled
    service,        \* the service the caller invoked translate on
    rawText,        \* the `sutra` argument the caller passed
    normalized,     \* NormalizingTranslationService.translate: `normalized`
    delegateCalls,  \* arguments of the calls to delegate.translate
    hybridSutra,    \* HybridTranslationService.translate: `sutra`
    llmCalls,       \* arguments of the calls to llmClient.translateSutra
    llmOutcome,     \* how the translateSutra promise settled
    dictCalls,      \* arguments of the calls to dictionaryClient.lookupWords
    dictOutcome,    \* how the lookupWords promise settled
    outcome,        \* how the caller's translate promise settled
    probe,          \* a direct call of detect, normalize or parseResponse:
                    \* its argument and, once made, what it returned
    loader,         \* a PromptLoader, the prompts directory it reads, and
                    \* the last call of loadPrompt
    ocr             \* a call of OcrTranslationService.translateFromImage

callVars == <<pc, service, rawText, normalized, delegateCalls, hybridSutra,
              llmCalls, llmOutcome, dictCalls, dictOutcome, outcome>>

vars == <<callVars, probe, loader, ocr>>

None == [status |-> "none"]
Pending == [status |-> "pending"]
Resolved(v) == [status |-> "resolved", value |-> v]
Rejected(e) == [status |-> "rejected", error |-> e]

InitCalls ==
    /\ pc = [c \in AllCalls |-> "idle"]
    /\ service = [c \in AllCalls |-> "none"]
    /\ rawText = [c \in AllCalls |-> << >>]
    /\ normalized = [c \in AllCalls |-> None]
    /\ delegateCalls = [c \in AllCalls |-> << >>]
    /\ hybridSutra = [c \in AllCalls |-> << >>]
    /\ llmCalls = [c \in AllCalls |-> << >>]
    /\ llmOutcome = [c \in AllCalls |-> None]
    /\ dictCalls = [c \in AllCalls |-> << >>]
    /\ dictOutcome = [c \in AllCalls |-> None]
    /\ outcome = [c \in AllCalls |-> None]

NotProbed(arg) == [op |-> "none", arg |-> arg]

\* new PromptLoader(promptsDir), with the files the directory holds
NewPromptLoader(files) ==
    [cache |-> EmptyMap, files |-> files, reads |-> << >>, notFound |-> {},
     call |-> None]

\* no call of translateFromImage made yet, for an upload and an engine
NoImageCall(upload, isMock) ==
    [pc |-> "idle", upload |-> upload, isMock |-> isMock, calls |-> << >>,
     handle |-> None, buffer |-> None, ocrResult |-> None,
     completion |-> None, logged |-> << >>, outcome |-> None]

InitOthers ==
    /\ loader = NewPromptLoader(EmptyMap)
    /\ ocr = NoImageCall([mimetype |-> "none", filename |-> "none"], FALSE)

Init == InitCalls /\ probe = NotProbed(<< >>) /\ InitOthers

(***************************************************************************)
(* HybridTranslationService.translate, piece by piece.                     *)
(***************************************************************************)
\* Mutant of ExtractWords: each distinct word is looked up once.
RECURSIVE dedupe(_)
dedupe(ws) ==
    IF ws = << >> THEN << >>
    ELSE LET front == dedupe(SubSeq(ws, 1, Len(ws) - 1))
             last == ws[Len(ws)]
         IN  IF \E i \in DOMAIN front : front[i] = last THEN front ELSE Append(front, last)

ExtractDistinctWords(llmResponse) ==
    dedupe([i \in 1..Len(llmResponse.words) |-> llmResponse.words[i].word])

\* Step 2: llmResponse.words.map((w) => w.word)
ExtractWords(llmResponse) ==
    [i \in 1..Len(llmResponse.words) |-> llmResponse.words[i].word]

\* The warning text, as the list of its blank-separated words.
DICTIONARY_WARNING ==
    <<"Dictionary", "API", "unavailable", "-", "showing", "LLM-only", "translations">>

\* Mutant of LookupSucceeded: warnings starts out as an empty array.
LookupSucceededEmptyWarnings(map) == [dictResults |-> map, warnings |-> << >>]

\* Step 3, try branch: dictResults is the resolved map, warnings stays
\* undefined.
LookupSucceeded(map) == [dictResults |-> map]

\* Mutant of LookupFailed: the warning does not say which mode remains.
LookupFailedTerseWarning ==
    [dictResults |-> EmptyMap, warnings |-> <<<<"Dictionary", "API", "unavailable">>>>]

\* Step 3, catch branch.
LookupFailed == [dictResults |-> EmptyMap, warnings |-> <<DICTIONARY_WARNING>>]

\* Mutant of MergeWord: the enhanced entry is rebuilt field by field and the
\* contextual note is forgotten.
MergeWordRebuilt(llmWord, dictResults) ==
    [word |-> llmWord.word,
     grammaticalForm |-> llmWord.grammaticalForm,
     meanings |-> llmWord.meanings,
     dictionaryDefinitions |-> MapGetOrEmpty(dictResults, llmWord.word)]

\* Step 4: { ...llmWord, dictionaryDefinitions: dictResults.get(llmWord.word) || [] }
MergeWord(llmWord, dictResults) ==
    ("dictionaryDefinitions" :> MapGetOrEmpty(dictResults, llmWord.word)) @@ llmWord

\* Steps 4 and 5: the object translate returns; lookup is the state the
\* try/catch of step 3 left behind.
HybridResult(sutra, llmResponse, lookup) ==
    [originalText |-> normalizeToLines(sutra),
     iastText |-> normalizeToLines(sutra),
     words |-> [i \in 1..Len(llmResponse.words) |->
                   MergeWord(llmResponse.words[i], lookup.dictResults)]]
        @@ Optional("alternativeTranslations", llmResponse)
        @@ Optional("warnings", lookup)

(***************************************************************************)
(* NormalizingTranslationService.translate                                 *)
(***************************************************************************)
TranslationError(message) == [name |-> "TranslationError", message |-> message]

\* Mutant of NormalizingResult: originalText is left as the delegate
\* computed it, from the text the delegate was given.
NormalizingResultDelegateOriginal(result, sutra, norm) ==
    [iastText |-> normalizeToLines(norm.iast)] @@ result

\* { ...result, originalText, iastText }
NormalizingResult(result, sutra, norm) ==
    [originalText |-> normalizeToLines(sutra),
     iastText |-> normalizeToLines(norm.iast)] @@ result

\* What the caller's promise resolves to once HybridTranslationService has
\* returned result to whoever called it.
ReturnToCaller(c, result) ==
    IF service[c] = "normalizing"
    THEN NormalizingResult(result, rawText[c], normalized[c])
    ELSE result

(***************************************************************************)
(* Actions.                                                                *)
(***************************************************************************)
\* Mutant of HybridCall: the dictionary lookup is started on the raw text
\* together with the model call.
HybridCallSpeculative(c, sutra) ==
    /\ hybridSutra' = [hybridSutra EXCEPT ![c] = sutra]
    /\ llmCalls' = [llmCalls EXCEPT ![c] = Append(@, sutra)]
    /\ llmOutcome' = [llmOutcome EXCEPT ![c] = Pending]
    /\ dictCalls' = [dictCalls EXCEPT ![c] = Append(@, <<sutra>>)]
    /\ dictOutcome' = [dictOutcome EXCEPT ![c] = Pending]
    /\ pc' = [pc EXCEPT ![c] = "awaitLlm"]

\* Mutant of HybridCall: the sutra is kept in a field of the service
\* instance, which all calls share, instead of a local.
HybridCallSharedSutra(c, sutra) ==
    /\ hybridSutra' = [k \in AllCalls |-> sutra]
    /\ llmCalls' = [llmCalls EXCEPT ![c] = Append(@, sutra)]
    /\ llmOutcome' = [llmOutcome EXCEPT ![c] = Pending]
    /\ pc' = [pc EXCEPT ![c] = "awaitLlm"]
    /\ UNCHANGED <<dictCalls, dictOutcome>>

\* HybridTranslationService.translate(sutra) up to its first await: it
\* invokes llmClient.translateSutra(sutra) and suspends.
HybridCall(c, sutra) ==
    /\ hybridSutra' = [hybridSutra EXCEPT ![c] = sutra]
    /\ llmCalls' = [llmCalls EXCEPT ![c] = Append(@, sutra)]
    /\ llmOutcome' = [llmOutcome EXCEPT ![c] = Pending]
    /\ pc' = [pc EXCEPT ![c] = "awaitLlm"]
    /\ UNCHANGED <<dictCalls, dictOutcome>>

\* The caller invokes HybridTranslationService.translate directly.
TranslateHybrid(c, text) ==
    /\ pc[c] = "idle"
    /\ service' = [service EXCEPT ![c] = "hybrid"]
    /\ rawText' = [rawText EXCEPT ![c] = text]
    /\ HybridCall(c, text)
    /\ UNCHANGED <<normalized, delegateCalls, outcome>>

\* Mutant of TranslateNormalizing: the failure of normalize is not checked
\* and the raw text goes to the delegate.
TranslateNormalizingUnchecked(c, text) ==
    /\ pc[c] = "idle"
    /\ service' = [service EXCEPT ![c] = "normalizing"]
    /\ rawText' = [rawText EXCEPT ![c] = text]
    /\ normalized' = [normalized EXCEPT ![c] = normalize(text)]
    /\ LET iast == IF normalized'[c].success THEN normalized'[c].iast ELSE text
       IN  /\ delegateCalls' = [delegateCalls EXCEPT ![c] = Append(@, iast)]
           /\ HybridCall(c, iast)
    /\ UNCHANGED outcome

\* Mutant of TranslateNormalizing: the delegate is given the raw sutra
\* instead of normalized.iast.
TranslateNormalizingRaw(c, text) ==
    /\ pc[c] = "idle"
    /\ service' = [service EXCEPT ![c] = "normalizing"]
    /\ rawText' = [rawText EXCEPT ![c] = text]
    /\ normalized' = [normalized EXCEPT ![c] = normalize(text)]
    /\ IF ~normalized'[c].success
       THEN /\ outcome' = [outcome EXCEPT ![c] = Rejected(TranslationError(normalized'[c].error))]
            /\ pc' = [pc EXCEPT ![c] = "settled"]
            /\ UNCHANGED <<delegateCalls, hybridSutra, llmCalls, llmOutcome,
                           dictCalls, dictOutcome>>
       ELSE /\ delegateCalls' = [delegateCalls EXCEPT ![c] = Append(@, text)]
            /\ HybridCall(c, text)
            /\ UNCHANGED outcome

\* The caller invokes NormalizingTranslationService.translate, whose
\* delegate is a HybridTranslationService.
TranslateNormalizing(c, text) ==
    /\ pc[c] = "idle"
    /\ service' = [service EXCEPT ![c] = "normalizing"]
    /\ rawText' = [rawText EXCEPT ![c] = text]
    /\ normalized' = [normalized EXCEPT ![c] = normalize(text)]
    /\ IF ~normalized'[c].success
       THEN /\ outcome' = [outcome EXCEPT ![c] = Rejected(TranslationError(normalized'[c].error))]
            /\ pc' = [pc EXCEPT ![c] = "settled"]
            /\ UNCHANGED <<delegateCalls, hybridSutra, llmCalls, llmOutcome,
                           dictCalls, dictOutcome>>
       ELSE /\ delegateCalls' = [delegateCalls EXCEPT ![c] = Append(@, normalized'[c].iast)]
            /\ HybridCall(c, normalized'[c].iast)
            /\ UNCHANGED outcome

\* translateSutra resolves: translate extracts the words, invokes
\* dictionaryClient.lookupWords(words) and suspends again.
LlmResolve(c, llmResponse) ==
    /\ pc[c] = "awaitLlm"
    /\ llmOutcome' = [llmOutcome EXCEPT ![c] = Resolved(llmResponse)]
    /\ dictCalls' = [dictCalls EXCEPT ![c] = Append(@, ExtractWords(llmResponse))]
    /\ dictOutcome' = [dictOutcome EXCEPT ![c] = Pending]
    /\ pc' = [pc EXCEPT ![c] = "awaitDict"]
    /\ UNCHANGED <<service, rawText, normalized, delegateCalls, hybridSutra,
                   llmCalls, outcome>>

\* Mutant of LlmReject: the error is caught and rethrown wrapped.
LlmRejectWrapped(c, error) ==
    /\ pc[c] = "awaitLlm"
    /\ llmOutcome' = [llmOutcome EXCEPT ![c] = Rejected(error)]
    /\ outcome' = [outcome EXCEPT ![c] = Rejected(TranslationError(error.message))]
    /\ pc' = [pc EXCEPT ![c] = "settled"]
    /\ UNCHANGED <<service, rawText, normalized, delegateCalls, hybridSutra,
                   llmCalls, dictCalls, dictOutcome>>

\* translateSutra rejects: nothing catches the error, neither in
\* HybridTranslationService nor in NormalizingTranslationService.
LlmReject(c, error) ==
    /\ pc[c] = "awaitLlm"
    /\ llmOutcome' = [llmOutcome EXCEPT ![c] = Rejected(error)]
    /\ outcome' = [outcome EXCEPT ![c] = Rejected(error)]
    /\ pc' = [pc EXCEPT ![c] = "settled"]
    /\ UNCHANGED <<service, rawText, normalized, delegateCalls, hybridSutra,
                   llmCalls, dictCalls, dictOutcome>>

\* lookupWords resolves: merge and return.
DictResolve(c, map) ==
    /\ pc[c] = "awaitDict"
    /\ dictOutcome' = [dictOutcome EXCEPT ![c] = Resolved(map)]
    /\ outcome' = [outcome EXCEPT ![c] =
           Resolved(ReturnToCaller(c,
               HybridResult(hybridSutra[c], llmOutcome[c].value, LookupSucceeded(map))))]
    /\ pc' = [pc EXCEPT ![c] = "settled"]
    /\ UNCHANGED <<service, rawText, normalized, delegateCalls, hybridSutra,
                   llmCalls, llmOutcome, dictCalls>>

\* Mutant of DictReject: the lookup is not inside a try block.
DictRejectUncaught(c, error) ==
    /\ pc[c] = "awaitDict"
    /\ dictOutcome' = [dictOutcome EXCEPT ![c] = Rejected(error)]
    /\ outcome' = [outcome EXCEPT ![c] = Rejected(error)]
    /\ pc' = [pc EXCEPT ![c] = "settled"]
    /\ UNCHANGED <<service, rawText, normalized, delegateCalls, hybridSutra,
                   llmCalls, llmOutcome, dictCalls>>

\* Mutant of DictReject: a failed lookup is tried once more before falling
\* back.
DictRejectRetried(c, error) ==
    /\ pc[c] = "awaitDict"
    /\ IF Len(dictCalls[c]) < 2
       THEN /\ dictCalls' = [dictCalls EXCEPT ![c] = Append(@, @[1])]
            /\ dictOutcome' = [dictOutcome EXCEPT ![c] = Pending]
            /\ UNCHANGED <<pc, outcome>>
       ELSE /\ dictOutcome' = [dictOutcome EXCEPT ![c] = Rejected(error)]
            /\ outcome' = [outcome EXCEPT ![c] =
                   Resolved(ReturnToCaller(c,
                       HybridResult(hybridSutra[c], llmOutcome[c].value, LookupFailed)))]
            /\ pc' = [pc EXCEPT ![c] = "settled"]
            /\ UNCHANGED dictCalls
    /\ UNCHANGED <<service, rawText, normalized, delegateCalls, hybridSutra,
                   llmCalls, llmOutcome>>

\* lookupWords rejects: the catch block runs, then merge and return.
DictReject(c, error) ==
    /\ pc[c] = "awaitDict"
    /\ dictOutcome' = [dictOutcome EXCEPT ![c] = Rejected(error)]
    /\ outcome' = [outcome EXCEPT ![c] =
           Resolved(ReturnToCaller(c,
               HybridResult(hybridSutra[c], llmOutcome[c].value, LookupFailed)))]
    /\ pc' = [pc EXCEPT ![c] = "settled"]
    /\ UNCHANGED <<service, rawText, normalized, delegateCalls, hybridSutra,
                   llmCalls, llmOutcome, dictCalls>>

\* One translate call, with every input and every collaborator answer.
Next ==
    \/ \E text \in Texts : TranslateHybrid(1, text) /\ UNCHANGED <<probe, loader, ocr>>
    \/ \E text \in Texts : TranslateNormalizing(1, text) /\ UNCHANGED <<probe, loader, ocr>>
    \/ \E llmResponse \in LlmResponses : LlmResolve(1, llmResponse) /\ UNCHANGED <<probe, loader, ocr>>
    \/ \E error \in LlmErrors : LlmReject(1, error) /\ UNCHANGED <<probe, loader, ocr>>
    \/ \E map \in DictionaryMaps : DictResolve(1, map) /\ UNCHANGED <<probe, loader, ocr>>
    \/ \E error \in DictionaryErrors : DictReject(1, error) /\ UNCHANGED <<probe, loader, ocr>>

Spec == Init /\ [][Next]_vars

(***************************************************************************)
(* Concurrent translate calls: every call of AllCalls may be in flight at  *)
(* once, interleaved at the two await points, on a few inputs.             *)
(***************************************************************************)
ConcurrentTexts ==
    {<<CP_LATIN_A>>, <<CP_DEVANAGARI_KA, CP_NEWLINE>>, <<CP_LATIN_A, CP_DEVANAGARI_KA>>}

ConcurrentLlmResponses ==
    {[words |-> <<LlmEntry(WORD_KA), LlmEntry(WORD_A)>>],
     [words |-> <<LlmEntry(WORD_A)>>, alternativeTranslations |-> <<"alt">>]}

ConcurrentDictionaryMaps == {EmptyMap, WORD_KA :> <<PWG_DEFINITION>>}

NextConcurrent ==
    \E c \in AllCalls :
        \/ \E text \in ConcurrentTexts : TranslateHybrid(c, text) /\ UNCHANGED <<probe, loader, ocr>>
        \/ \E text \in ConcurrentTexts : TranslateNormalizing(c, text) /\ UNCHANGED <<probe, loader, ocr>>
        \/ \E llmResponse \in ConcurrentLlmResponses : LlmResolve(c, llmResponse) /\ UNCHANGED <<probe, loader, ocr>>
        \/ \E error \in LlmErrors : LlmReject(c, error) /\ UNCHANGED <<probe, loader, ocr>>
        \/ \E map \in ConcurrentDictionaryMaps : DictResolve(c, map) /\ UNCHANGED <<probe, loader, ocr>>
        \/ \E error \in DictionaryErrors : DictReject(c, error) /\ UNCHANGED <<probe, loader, ocr>>

SpecConcurrent == Init /\ [][NextConcurrent]_vars

(***************************************************************************)
(* Direct calls of detect and normalize, and one translate call, on a text *)
(* drawn from an alphabet with white space and a neutral digit.            *)
(***************************************************************************)
CP_CARRIAGE_RETURN == 13
CP_DIGIT_ONE == 49

ProbeAlphabet ==
    {CP_NEWLINE, CP_CARRIAGE_RETURN, CP_DIGIT_ONE, CP_LATIN_A, CP_DEVANAGARI_KA}

ProbeTexts == SeqsUpTo(ProbeAlphabet, MaxLen)

InitText ==
    /\ InitCalls
    /\ probe \in {NotProbed(text) : text \in ProbeTexts}
    /\ InitOthers

\* detector.detect(text)
CallDetect ==
    /\ probe.op = "none"
    /\ probe' = [op |-> "detect", arg |-> probe.arg, returned |-> detect(probe.arg)]
    /\ UNCHANGED <<callVars, loader, ocr>>

\* normalizer.normalize(text)
CallNormalize ==
    /\ probe.op = "none"
    /\ probe' = [op |-> "normalize", arg |-> probe.arg,
                 returned |-> normalizeTraced(probe.arg).returned,
                 toIastCalls |-> normalizeTraced(probe.arg).toIastCalls]
    /\ UNCHANGED <<callVars, loader, ocr>>

NextText ==
    \/ CallDetect
    \/ CallNormalize
    \/ TranslateHybrid(1, probe.arg) /\ UNCHANGED <<probe, loader, ocr>>
    \/ TranslateNormalizing(1, probe.arg) /\ UNCHANGED <<probe, loader, ocr>>
    \/ \E llmResponse \in ConcurrentLlmResponses :
           LlmResolve(1, llmResponse) /\ UNCHANGED <<probe, loader, ocr>>
    \/ \E error \in LlmErrors : LlmReject(1, error) /\ UNCHANGED <<probe, loader, ocr>>
    \/ \E map \in ConcurrentDictionaryMaps : DictResolve(1, map) /\ UNCHANGED <<probe, loader, ocr>>
    \/ \E error \in DictionaryErrors : DictReject(1, error) /\ UNCHANGED <<probe, loader, ocr>>

SpecText == InitText /\ [][NextText]_vars

(***************************************************************************)
(* ClaudeLlmClient: the text of a reply and JSON.                          *)
(*                                                                         *)
(* The text of a reply is a sequence of tokens, each standing for the      *)
(* characters it spells: the six JSON punctuators, a double quote, a       *)
(* space, a triple backtick, and runs of other characters ("words",        *)
(* "json", "null", "1", ...).  Outside string literals no two runs are     *)
(* adjacent.                                                               *)
(***************************************************************************)
\* The triple backtick; a backtick cannot be written in a string here.
FENCE == "'''"
QUOTE == "\""
SPACE == " "

Return(value) == [status |-> "return", value |-> value]
Throw(error) == [status |-> "throw", error |-> error]

\* The values JSON.parse can return.
JsNull == [type |-> "null"]
JsNumber(n) == [type |-> "number", n |-> n]
JsString(chars) == [type |-> "string", chars |-> chars]
JsArray(items) == [type |-> "array", items |-> items]
\* members: the sequence of <<key, value>> pairs, in insertion order.
JsObject(members) == [type |-> "object", members |-> members]

HasKey(obj, key) == \E i \in DOMAIN obj.members : obj.members[i][1] = key
Get(obj, key) ==
    obj.members[CHOOSE i \in DOMAIN obj.members : obj.members[i][1] = key][2]

\* obj[key] = value while parsing: a repeated key keeps its place and takes
\* the later value.
Put(members, key, value) ==
    IF \E i \in DOMAIN members : members[i][1] = key
    THEN [i \in DOMAIN members |->
             IF members[i][1] = key THEN <<key, value>> ELSE members[i]]
    ELSE Append(members, <<key, value>>)

\* String.prototype.trim on a token sequence.
RECURSIVE trimTokens(_)
trimTokens(text) ==
    IF text # << >> /\ Head(text) = SPACE THEN trimTokens(Tail(text))
    ELSE IF text # << >> /\ text[Len(text)] = SPACE
    THEN trimTokens(SubSeq(text, 1, Len(text) - 1))
    ELSE text

RECURSIVE skipSpace(_, _)
skipSpace(text, i) ==
    IF i <= Len(text) /\ text[i] = SPACE THEN skipSpace(text, i + 1) ELSE i

\* text.match(/```(?:json)?\s*([\s\S]*?)```/): the leftmost triple backtick
\* that has another one after it opens the block, an optional json tag and
\* white space are skipped, and the capture runs up to the next triple
\* backtick.
extractJson(text) ==
    LET fences == {i \in DOMAIN text : text[i] = FENCE}
    IN  IF Cardinality(fences) >= 2
        THEN LET open == CHOOSE i \in fences : \A j \in fences : i <= j
                 close == CHOOSE i \in fences \ {open} :
                              \A j \in fences \ {open} : i <= j
                 afterTag == IF open + 1 < close /\ text[open + 1] = "json"
                             THEN open + 2 ELSE open + 1
                 start == skipSpace(SubSeq(text, 1, close - 1), afterTag)
             IN  trimTokens(SubSeq(text, start, close - 1))
        ELSE trimTokens(text)

\* JSON.parse, by recursive descent.  A step returns the value read and the
\* position after it, or fails.
ParseFail == [ok |-> FALSE]
ParseOk(value, next) == [ok |-> TRUE, value |-> value, next |-> next]

\* A string literal opening at text[i]: up to the next double quote.
parseString(text, i) ==
    LET closing == {j \in (i + 1)..Len(text) : text[j] = QUOTE}
    IN  IF closing = {} THEN ParseFail
        ELSE LET j == CHOOSE k \in closing : \A m \in closing : k <= m
             IN  ParseOk(JsString(SubSeq(text, i + 1, j - 1)), j + 1)

RECURSIVE parseValue(_, _)
RECURSIVE parseElements(_, _, _, _)
RECURSIVE parseMembers(_, _, _, _)

parseValue(text, from) ==
    LET i == skipSpace(text, from)
    IN  IF i > Len(text) THEN ParseFail
        ELSE IF text[i] = QUOTE THEN parseString(text, i)
        ELSE IF text[i] = "{" THEN parseMembers(text, i + 1, << >>, TRUE)
        ELSE IF text[i] = "[" THEN parseElements(text, i + 1, << >>, TRUE)
        ELSE IF text[i] = "null" THEN ParseOk(JsNull, i + 1)
        ELSE IF text[i] = "1" THEN ParseOk(JsNumber(1), i + 1)
        ELSE ParseFail

parseElements(text, from, items, first) ==
    LET i == skipSpace(text, from)
    IN  IF first /\ i <= Len(text) /\ text[i] = "]"
        THEN ParseOk(JsArray(items), i + 1)
        ELSE LET element == parseValue(text, i)
                 j == skipSpace(text, element.next)
             IN  IF ~element.ok THEN ParseFail
                 ELSE IF j > Len(text) THEN ParseFail
                 ELSE IF text[j] = ","
                 THEN parseElements(text, j + 1, Append(items, element.value), FALSE)
                 ELSE IF text[j] = "]"
                 THEN ParseOk(JsArray(Append(items, element.value)), j + 1)
                 ELSE ParseFail

parseMembers(text, from, members, first) ==
    LET i == skipSpace(text, from)
    IN  IF first /\ i <= Len(text) /\ text[i] = "}"
        THEN ParseOk(JsObject(members), i + 1)
        ELSE IF i > Len(text) \/ text[i] # QUOTE THEN ParseFail
        ELSE LET key == parseString(text, i)
                 colon == skipSpace(text, key.next)
                 value == parseValue(text, colon + 1)
                 j == skipSpace(text, value.next)
             IN  IF ~key.ok THEN ParseFail
                 ELSE IF colon > Len(text) \/ text[colon] # ":" THEN ParseFail
                 ELSE IF ~value.ok THEN ParseFail
                 ELSE IF j > Len(text) THEN ParseFail
                 ELSE IF text[j] = ","
                 THEN parseMembers(text, j + 1,
                                   Put(members, key.value.chars, value.value), FALSE)
                 ELSE IF text[j] = "}"
                 THEN ParseOk(JsObject(Put(members, key.value.chars, value.value)), j + 1)
                 ELSE ParseFail

JSON_parse(text) ==
    LET read == parseValue(text, 1)
    IN  IF read.ok /\ skipSpace(text, read.next) > Len(text)
        THEN Return(read.value)
        ELSE Throw([name |-> "SyntaxError"])

\* JSON.stringify(value), without indentation.
RECURSIVE JSON_stringify(_)
RECURSIVE stringifyAll(_, _)
JSON_stringify(value) ==
    IF value.type = "string" THEN <<QUOTE>> \o value.chars \o <<QUOTE>>
    ELSE IF value.type = "number" THEN <<ToString(value.n)>>
    ELSE IF value.type = "null" THEN <<"null">>
    ELSE IF value.type = "array"
    THEN <<"[">> \o stringifyAll(value.items, FALSE) \o <<"]">>
    ELSE <<"{">> \o stringifyAll(value.members, TRUE) \o <<"}">>

stringifyAll(parts, keyed) ==
    IF parts = << >> THEN << >>
    ELSE (IF keyed
          THEN <<QUOTE>> \o Head(parts)[1] \o <<QUOTE, ":">> \o JSON_stringify(Head(parts)[2])
          ELSE JSON_stringify(Head(parts)))
         \o (IF Len(parts) > 1 THEN <<",">> ELSE << >>)
         \o stringifyAll(Tail(parts), keyed)

\* String(value)
RECURSIVE StringOf(_)
RECURSIVE joinStrings(_)
StringOf(value) ==
    IF value.type = "string" THEN value.chars
    ELSE IF value.type = "number" THEN <<ToString(value.n)>>
    ELSE IF value.type = "null" THEN <<"null">>
    ELSE IF value.type = "array" THEN joinStrings(value.items)
    ELSE <<"[object Object]">>

\* Array.prototype.join(','): null elements join as the empty string.
joinStrings(items) ==
    IF items = << >> THEN << >>
    ELSE (IF Head(items).type = "null" THEN << >> ELSE StringOf(Head(items)))
         \o (IF Len(items) > 1 THEN <<",">> ELSE << >>)
         \o joinStrings(Tail(items))

(***************************************************************************)
(* ClaudeLlmClient.parseResponse and the steps it is made of.  A message   *)
(* of a ClaudeLlmError is the sequence of its words.                       *)
(***************************************************************************)
EMPTY_RESPONSE_MESSAGE == <<"Empty", "response", "from", "Claude">>
PARSE_FAILURE_MESSAGE == <<"Failed", "to", "parse", "Claude", "response">>
INVALID_STRUCTURE_MESSAGE ==
    <<"Invalid", "response", "structure:", "missing", "words", "array">>
INVALID_ENTRY_MESSAGE == <<"Invalid", "word", "entry", "structure">>

ClaudeLlmError(message) == [name |-> "ClaudeLlmError", message |-> message]

parseJson(text) ==
    LET parsed == JSON_parse(text)
    IN  IF parsed.status = "throw"
        THEN Throw(ClaudeLlmError(PARSE_FAILURE_MESSAGE))
        ELSE parsed

\* typeof obj === 'object' && obj !== null && 'words' in obj &&
\* Array.isArray(obj.words).  An array is an 'object' to typeof, but of the
\* values JSON.parse returns only an object can have the key.
isValidResponse(obj) ==
    /\ obj.type = "object"
    /\ HasKey(obj, <<"words">>)
    /\ Get(obj, <<"words">>).type = "array"

\* Mutant of validateWordEntry: meanings is always wrapped, a list as the
\* one string String(list).
validateWordEntryAlwaysWraps(entry) ==
    IF \/ entry.type # "object"
       \/ ~HasKey(entry, <<"word">>)
       \/ ~HasKey(entry, <<"grammaticalForm">>)
       \/ ~HasKey(entry, <<"meanings">>)
    THEN Throw(ClaudeLlmError(INVALID_ENTRY_MESSAGE))
    ELSE Return([word |-> StringOf(Get(entry, <<"word">>)),
                 grammaticalForm |-> StringOf(Get(entry, <<"grammaticalForm">>)),
                 meanings |-> <<StringOf(Get(entry, <<"meanings">>))>>])

validateWordEntry(entry) ==
    IF \/ entry.type # "object"
       \/ ~HasKey(entry, <<"word">>)
       \/ ~HasKey(entry, <<"grammaticalForm">>)
       \/ ~HasKey(entry, <<"meanings">>)
    THEN Throw(ClaudeLlmError(INVALID_ENTRY_MESSAGE))
    ELSE LET meanings == Get(entry, <<"meanings">>)
         IN  Return([word |-> StringOf(Get(entry, <<"word">>)),
                     grammaticalForm |-> StringOf(Get(entry, <<"grammaticalForm">>)),
                     meanings |-> IF meanings.type = "array"
                                  THEN [i \in DOMAIN meanings.items |->
                                           StringOf(meanings.items[i])]
                                  ELSE <<StringOf(meanings)>>])

\* Mutant of validateResponse: entries that fail validation are left out of
\* the result.
validateResponseDropsInvalid(parsed) ==
    IF ~isValidResponse(parsed)
    THEN Throw(ClaudeLlmError(INVALID_STRUCTURE_MESSAGE))
    ELSE LET words == Get(parsed, <<"words">>).items
             entries == [i \in DOMAIN words |-> validateWordEntry(words[i])]
             kept == SelectSeq(entries, LAMBDA entry : entry.status = "return")
         IN  Return([words |-> [i \in DOMAIN kept |-> kept[i].value]])

\* parsed.words.map((w) => this.validateWordEntry(w)): the first entry that
\* throws ends the map.
validateResponse(parsed) ==
    IF ~isValidResponse(parsed)
    THEN Throw(ClaudeLlmError(INVALID_STRUCTURE_MESSAGE))
    ELSE LET words == Get(parsed, <<"words">>).items
             entries == [i \in DOMAIN words |-> validateWordEntry(words[i])]
             thrown == {i \in DOMAIN words : entries[i].status = "throw"}
         IN  IF thrown # {}
             THEN entries[CHOOSE i \in thrown : \A j \in thrown : i <= j]
             ELSE Return([words |-> [i \in DOMAIN words |-> entries[i].value]])

\* Mutant of parseResponse: a reply without a text block is read as the
\* empty text.
parseResponseEmptyTextDefault(response) ==
    IF "content" \notin DOMAIN response \/ Len(response.content) = 0
    THEN Throw(ClaudeLlmError(EMPTY_RESPONSE_MESSAGE))
    ELSE LET textBlocks == {i \in DOMAIN response.content :
                               response.content[i].type = "text"}
             text == IF textBlocks = {} THEN << >>
                     ELSE response.content[CHOOSE i \in textBlocks :
                                               \A j \in textBlocks : i <= j].text
             parsed == parseJson(extractJson(text))
         IN  IF parsed.status = "throw" THEN parsed
             ELSE validateResponse(parsed.value)

parseResponse(response) ==
    IF "content" \notin DOMAIN response \/ Len(response.content) = 0
    THEN Throw(ClaudeLlmError(EMPTY_RESPONSE_MESSAGE))
    ELSE LET textBlocks == {i \in DOMAIN response.content :
                               response.content[i].type = "text"}
         IN  IF textBlocks = {}
             THEN Throw(ClaudeLlmError(EMPTY_RESPONSE_MESSAGE))
             ELSE LET textContent ==
                          response.content[CHOOSE i \in textBlocks :
                                               \A j \in textBlocks : i <= j]
                      parsed == parseJson(extractJson(textContent.text))
                  IN  IF parsed.status = "throw" THEN parsed
                      ELSE validateResponse(parsed.value)

(***************************************************************************)
(* Replies of the model, as the Anthropic client hands them over.          *)
(***************************************************************************)
ENTRY_PLAIN ==
    JsObject(<< <<(<<"word">>), JsString(<<"atha">>)>>,
                <<(<<"grammaticalForm">>), JsString(<<"indeclinable">>)>>,
                <<(<<"meanings">>), JsArray(<<JsString(<<"now">>)>>)>> >>)

ENTRY_COERCED ==
    JsObject(<< <<(<<"word">>), JsNumber(1)>>,
                <<(<<"grammaticalForm">>), JsNull>>,
                <<(<<"meanings">>), JsString(<<"now", SPACE, "then">>)>> >>)

ENTRY_NOTE ==
    JsObject(<< <<(<<"word">>), JsString(<<"yoga">>)>>,
                <<(<<"grammaticalForm">>), JsString(<<"noun">>)>>,
                <<(<<"meanings">>), JsArray(<<JsString(<<"union">>), JsNumber(1)>>)>>,
                <<(<<"contextualNote">>), JsString(<<"here">>)>> >>)

ENTRY_FENCED ==
    JsObject(<< <<(<<"word">>), JsString(<<FENCE, "a", FENCE>>)>>,
                <<(<<"grammaticalForm">>), JsString(<<"noun">>)>>,
                <<(<<"meanings">>), JsArray(<< >>)>> >>)

ENTRY_TICK ==
    JsObject(<< <<(<<"word">>), JsString(<<"iti">>)>>,
                <<(<<"grammaticalForm">>), JsString(<<"indeclinable">>)>>,
                <<(<<"meanings">>), JsArray(<<JsString(<<FENCE>>)>>)>> >>)

ENTRY_NO_MEANINGS ==
    JsObject(<< <<(<<"word">>), JsString(<<"atha">>)>>,
                <<(<<"grammaticalForm">>), JsString(<<"indeclinable">>)>> >>)

ModelEntries ==
    {ENTRY_PLAIN, ENTRY_COERCED, ENTRY_NOTE, ENTRY_FENCED, ENTRY_TICK,
     ENTRY_NO_MEANINGS, JsNull}

\* What the model may send as its JSON document.
ModelDocuments ==
    {JsObject(<< <<(<<"words">>), JsArray(ws)>> >>) :
         ws \in SeqsUpTo(ModelEntries, MaxWords)}
    \cup {JsObject(<< <<(<<"words">>), JsArray(ws)>>,
                      <<(<<"alternativeTranslations">>), JsArray(<<JsString(<<"Now">>)>>)>> >>) :
              ws \in SeqsUpTo(ModelEntries, MaxWords)}
    \cup {JsObject(<< <<(<<"notWords">>), JsArray(<< >>)>> >>),
          JsObject(<< <<(<<"words">>), JsNull>> >>),
          JsObject(<< <<(<<"words">>), JsString(<<"atha">>)>> >>),
          JsObject(<< <<(<<"words">>), JsObject(<< >>)>> >>),
          JsObject(<< >>), JsArray(<< >>), JsArray(<<ENTRY_PLAIN>>),
          JsString(<<"words">>), JsNumber(1), JsNull}

PROSE == <<"This", SPACE, "is", SPACE, "not", SPACE, "valid", SPACE, "JSON">>

\* Texts that are not JSON.
BrokenTexts ==
    {PROSE, << >>, <<"{">>, <<"{", QUOTE, "words", QUOTE, ":", "[", "]">>,
     <<"{", "words", ":", "[", "]", "}">>}

\* A payload as it stands in the reply: bare, padded, or in a fenced block
\* with or without the json tag and with or without prose around it.
Wrappings(payload) ==
    {payload,
     <<SPACE>> \o payload \o <<SPACE>>,
     <<FENCE, "json", SPACE>> \o payload \o <<SPACE, FENCE>>,
     <<FENCE, SPACE>> \o payload \o <<FENCE>>,
     PROSE \o <<SPACE, FENCE, "json", SPACE>> \o payload \o <<SPACE, FENCE, SPACE>> \o PROSE}

ReplyTexts ==
    UNION {Wrappings(JSON_stringify(document)) : document \in ModelDocuments}
        \cup UNION {Wrappings(text) : text \in BrokenTexts}

TextBlock(text) == [type |-> "text", text |-> text]
ToolUseBlock == [type |-> "tool_use"]

\* Anthropic.Message, as far as parseResponse reads it.
ClaudeResponses ==
    {[content |-> <<TextBlock(text)>>] : text \in ReplyTexts}
        \cup {NoFields,
              [content |-> << >>],
              [content |-> <<ToolUseBlock>>],
              [content |-> <<ToolUseBlock, TextBlock(JSON_stringify(JsNull))>>],
              [content |-> <<TextBlock(PROSE), TextBlock(JSON_stringify(JsNull))>>]}

InitParser ==
    /\ InitCalls
    /\ probe \in {NotProbed(response) : response \in ClaudeResponses}
    /\ InitOthers

\* this.parseResponse(response)
CallParseResponse ==
    /\ probe.op = "none"
    /\ probe' = [op |-> "parseResponse", arg |-> probe.arg,
                 outcome |-> parseResponse(probe.arg)]
    /\ UNCHANGED <<callVars, loader, ocr>>

(***************************************************************************)
(* ClaudeLlmClient.translateSutra: the call of messages.create, and the    *)
(* parse of its answer inside the try block.  probe.arg is the message the *)
(* API answers with, if it answers.                                        *)
(***************************************************************************)
TRANSLATE_FAILURE_PREFIX == <<"Failed", "to", "translate", "sutra:">>
UNKNOWN_ERROR_MESSAGE == <<"Unknown", "error">>

\* What messages.create may reject with: an Error, an error of a subclass,
\* or a thrown value that is not an Error.
ApiErrors ==
    {[name |-> "Error", message |-> <<"API", "rate", "limit", "exceeded">>],
     [name |-> "APIError", message |-> <<"overloaded">>],
     [name |-> "string"]}

\* error instanceof Error
IsErrorInstance(error) == "message" \in DOMAIN error

\* Mutant of translateSutraCatch: every caught error is wrapped.
translateSutraCatchWrapsAll(error) ==
    ClaudeLlmError(TRANSLATE_FAILURE_PREFIX
                       \o (IF IsErrorInstance(error) THEN error.message
                           ELSE UNKNOWN_ERROR_MESSAGE))

\* The catch block of translateSutra: the error it throws.
translateSutraCatch(error) ==
    IF error.name = "ClaudeLlmError"
    THEN error
    ELSE ClaudeLlmError(TRANSLATE_FAILURE_PREFIX
                            \o (IF IsErrorInstance(error) THEN error.message
                                ELSE UNKNOWN_ERROR_MESSAGE))

\* translateSutra(sutra) up to `await this.client.messages.create(...)`
CallTranslateSutra ==
    /\ probe.op = "none"
    /\ probe' = [op |-> "translateSutra", arg |-> probe.arg,
                 create |-> Pending, outcome |-> Pending]
    /\ UNCHANGED <<callVars, loader, ocr>>

\* messages.create resolves: return this.parseResponse(response), in the try
CreateResolve ==
    /\ probe.op = "translateSutra"
    /\ probe.create = Pending
    /\ LET parsed == parseResponse(probe.arg)
       IN  probe' = [probe EXCEPT
                        !.create = Resolved(probe.arg),
                        !.outcome = IF parsed.status = "return"
                                    THEN Resolved(parsed.value)
                                    ELSE Rejected(translateSutraCatch(parsed.error))]
    /\ UNCHANGED <<callVars, loader, ocr>>

\* messages.create rejects: the catch block
CreateReject(error) ==
    /\ probe.op = "translateSutra"
    /\ probe.create = Pending
    /\ probe' = [probe EXCEPT !.create = Rejected(error),
                              !.outcome = Rejected(translateSutraCatch(error))]
    /\ UNCHANGED <<callVars, loader, ocr>>

NextParser ==
    \/ CallParseResponse
    \/ CallTranslateSutra
    \/ CreateResolve
    \/ \E error \in ApiErrors : CreateReject(error)

SpecParser == InitParser /\ [][NextParser]_vars

(***************************************************************************)
(* Properties.                                                             *)
(***************************************************************************)
Returned(c) == outcome[c].status = "resolved"
Result(c) == outcome[c].value
LlmFailed(c) == llmOutcome[c].status = "rejected"
LlmSucceeded(c) == llmOutcome[c].status = "resolved"
DictFailed(c) == dictOutcome[c].status = "rejected"
DictSucceeded(c) == dictOutcome[c].status = "resolved"
NormalizationFailed(c) == normalized[c] # None /\ ~normalized[c].success

Mentions(message, word) == \E i \in DOMAIN message : message[i] = word
Without(obj, key) == [k \in DOMAIN obj \ {key} |-> obj[k]]

\* C1: the dictionary's lookupWords is never invoked, and no lookup is in
\* flight or settled, unless the translateSutra call of the same translate
\* call has already resolved successfully.
C1_DictionaryOnlyAfterModelResolved ==
    \A c \in AllCalls :
        ~LlmSucceeded(c) => dictCalls[c] = << >> /\ dictOutcome[c] = None

C1_Witness ==
    \E c \in AllCalls :
        /\ service[c] = "normalizing"
        /\ LlmSucceeded(c)
        /\ Len(dictCalls[c]) = 1
        /\ dictOutcome[c] = Pending

C3_SingleFallbackWarning ==
    \A c \in AllCalls :
        DictFailed(c) =>
            /\ Returned(c)
            /\ "warnings" \in DOMAIN Result(c)
            /\ Len(Result(c).warnings) = 1
            /\ Mentions(Result(c).warnings[1], "Dictionary")
            /\ Mentions(Result(c).warnings[1], "LLM-only")

C3_Witness ==
    \E c \in AllCalls :
        /\ DictFailed(c)
        /\ Returned(c)
        /\ Len(Result(c).words) = MaxWords

\* C4: when the dictionary fails, no entry of the returned words has
\* dictionaryDefinitions set: the field is absent, not an empty list.
C4_NoDefinitionsFieldWhenDegraded ==
    \A c \in AllCalls :
        DictFailed(c) /\ Returned(c) =>
            \A i \in DOMAIN Result(c).words :
                "dictionaryDefinitions" \notin DOMAIN Result(c).words[i]

\* C5: a settled translate call has exactly one of three outcomes: an input
\* error (mixed script), the model's error, or a result; a dictionary
\* failure is never a rejection, and a result is returned whenever
\* normalization and the model call both succeeded.
InputErrorOutcome(c) ==
    /\ NormalizationFailed(c)
    /\ outcome[c] = Rejected(TranslationError(MIXED_SCRIPT_ERROR))
    /\ llmOutcome[c] = None

ModelErrorOutcome(c) ==
    /\ ~NormalizationFailed(c)
    /\ LlmFailed(c)
    /\ outcome[c] = Rejected(llmOutcome[c].error)

ResultOutcome(c) ==
    /\ ~NormalizationFailed(c)
    /\ LlmSucceeded(c)
    /\ dictOutcome[c].status \in {"resolved", "rejected"}
    /\ Returned(c)

C5_ThreeOutcomes ==
    \A c \in AllCalls :
        /\ pc[c] = "settled" =>
               Cardinality({k \in {"input", "model", "result"} :
                   \/ k = "input" /\ InputErrorOutcome(c)
                   \/ k = "model" /\ ModelErrorOutcome(c)
                   \/ k = "result" /\ ResultOutcome(c)}) = 1
        /\ pc[c] # "settled" => outcome[c] = None
        /\ DictFailed(c) => Returned(c)

C5_Witness ==
    \E c \in AllCalls :
        /\ service[c] = "normalizing"
        /\ normalized[c] # None /\ normalized[c].success
        /\ normalized[c].originalScript = "devanagari"
        /\ DictFailed(c)
        /\ pc[c] = "settled"
        /\ Returned(c)

\* C6: a returned result has warnings if and only if the dictionary failed
\* during the call; when both collaborators succeeded the field is absent,
\* not an empty array.
C6_WarningsIffDictionaryFailed ==
    \A c \in AllCalls :
        Returned(c) => ("warnings" \in DOMAIN Result(c) <=> DictFailed(c))

C6_Witness ==
    \E c \in AllCalls :
        /\ Returned(c)
        /\ DictSucceeded(c)
        /\ "warnings" \notin DOMAIN Result(c)
        /\ Len(Result(c).words) > 0

\* C7: whether or not the dictionary failed, the returned words have the
\* model's length and order, every entry equals the model's entry in all
\* fields but dictionaryDefinitions (an absent contextualNote stays absent),
\* and alternativeTranslations is the model's value.
C7_ModelDataPreserved ==
    \A c \in AllCalls :
        Returned(c) =>
            LET llmResponse == llmOutcome[c].value
            IN  /\ Len(Result(c).words) = Len(llmResponse.words)
                /\ \A i \in DOMAIN llmResponse.words :
                       Without(Result(c).words[i], "dictionaryDefinitions")
                           = llmResponse.words[i]
                /\ Optional("alternativeTranslations", Result(c))
                       = Optional("alternativeTranslations", llmResponse)

C7_Witness ==
    \E c \in AllCalls :
        /\ Returned(c)
        /\ DictFailed(c)
        /\ Len(Result(c).words) = 2
        /\ Result(c).words[1].word # Result(c).words[2].word
        /\ "contextualNote" \in DOMAIN Result(c).words[1]
        /\ "contextualNote" \notin DOMAIN Result(c).words[2]
        /\ "alternativeTranslations" \in DOMAIN Result(c)

\* C8: when the dictionary succeeds, every returned entry's
\* dictionaryDefinitions is the value the map holds under that entry's
\* word, or the empty list if the map has no value for it (so entries with
\* the same word get the same definitions).
C8_DefinitionsFromLookup ==
    \A c \in AllCalls :
        Returned(c) /\ DictSucceeded(c) =>
            LET map == dictOutcome[c].value
            IN  \A i \in DOMAIN Result(c).words :
                    LET w == llmOutcome[c].value.words[i].word
                    IN  /\ "dictionaryDefinitions" \in DOMAIN Result(c).words[i]
                        /\ w \in DOMAIN map =>
                               Result(c).words[i].dictionaryDefinitions = map[w]
                        /\ w \notin DOMAIN map =>
                               Result(c).words[i].dictionaryDefinitions = << >>

C8_Witness ==
    \E c \in AllCalls :
        /\ Returned(c)
        /\ DictSucceeded(c)
        /\ Len(Result(c).words) = 2
        /\ Result(c).words[1].word \notin DOMAIN dictOutcome[c].value
        /\ Result(c).words[2].word \in DOMAIN dictOutcome[c].value
        /\ Result(c).words[2].dictionaryDefinitions = <<PWG_DEFINITION>>

\* C9: the batch passed to lookupWords is the sequence of the word fields of
\* the model's entries: same length, same order, duplicates kept; it is not
\* derived from the input text.
C9_LookupBatchIsModelWords ==
    \A c \in AllCalls :
        \A n \in DOMAIN dictCalls[c] :
            LET llmWords == llmOutcome[c].value.words
            IN  /\ Len(dictCalls[c][n]) = Len(llmWords)
                /\ \A i \in DOMAIN llmWords : dictCalls[c][n][i] = llmWords[i].word

C9_Witness ==
    \E c \in AllCalls :
        /\ Len(dictCalls[c]) = 1
        /\ Len(dictCalls[c][1]) = 2
        /\ dictCalls[c][1][1] = dictCalls[c][1][2]
        /\ hybridSutra[c] # dictCalls[c][1][1]

\* C10: when normalization fails (mixed script), translate rejects at once
\* with an input error carrying the normalizer's fixed message, and neither
\* the delegate, nor the model, nor the dictionary is invoked.
C10_MixedScriptRejectedWithoutCalls ==
    \A c \in AllCalls :
        service[c] = "normalizing" /\ detect(rawText[c]) = "mixed" =>
            /\ pc[c] = "settled"
            /\ outcome[c] = Rejected(TranslationError(MIXED_SCRIPT_ERROR))
            /\ delegateCalls[c] = << >>
            /\ llmCalls[c] = << >>
            /\ dictCalls[c] = << >>

C10_Witness ==
    \E c \in AllCalls :
        /\ service[c] = "normalizing"
        /\ NormalizationFailed(c)
        /\ outcome[c].status = "rejected"
        /\ Len(rawText[c]) = MaxLen

\* C11: within one translate call nothing is retried: translateSutra is
\* invoked exactly once (not at all on an input error), lookupWords at most
\* once, and exactly once when translateSutra succeeded, however the calls
\* end.
C11_NoRetries ==
    \A c \in AllCalls :
        /\ Len(llmCalls[c]) <= 1
        /\ Len(dictCalls[c]) <= 1
        /\ pc[c] # "idle" =>
               Len(llmCalls[c]) = IF NormalizationFailed(c) THEN 0 ELSE 1
        /\ LlmSucceeded(c) => Len(dictCalls[c]) = 1

C11_Witness ==
    \E c \in AllCalls :
        /\ service[c] = "hybrid"
        /\ pc[c] = "settled"
        /\ DictFailed(c)
        /\ Len(llmCalls[c]) = 1
        /\ Len(dictCalls[c]) = 1

\* C12: translateSutra is invoked with the normalized text: behind the
\* normalizing service, Devanagari input reaches it as the converter's
\* output (not as the raw text) and IAST input reaches it unchanged; a
\* HybridTranslationService called directly passes its argument on as is.
C12_ModelGetsNormalizedText ==
    \A c \in AllCalls :
        \A n \in DOMAIN llmCalls[c] :
            /\ service[c] = "normalizing" /\ detect(rawText[c]) = "devanagari" =>
                   /\ llmCalls[c][n] = toIast(rawText[c])
                   /\ llmCalls[c][n] # rawText[c]
            /\ service[c] = "normalizing" /\ detect(rawText[c]) = "iast" =>
                   llmCalls[c][n] = rawText[c]
            /\ service[c] = "hybrid" => llmCalls[c][n] = rawText[c]

C12_Witness ==
    \E c \in AllCalls :
        /\ service[c] = "normalizing"
        /\ detect(rawText[c]) = "devanagari"
        /\ Len(rawText[c]) = 2
        /\ llmCalls[c] = <<toIast(rawText[c])>>
        /\ LlmSucceeded(c)

\* The outcome of a translate call that runs alone on service svc with
\* input text, given how its two collaborator calls ended.
AloneOutcome(svc, text, llmEnd, dictEnd) ==
    LET norm == normalize(text)
        sutra == IF svc = "normalizing" THEN norm.iast ELSE text
        lookup == IF dictEnd.status = "resolved"
                  THEN LookupSucceeded(dictEnd.value)
                  ELSE LookupFailed
        result == HybridResult(sutra, llmEnd.value, lookup)
    IN  IF svc = "normalizing" /\ ~norm.success
        THEN Rejected(TranslationError(norm.error))
        ELSE IF llmEnd.status = "rejected"
        THEN Rejected(llmEnd.error)
        ELSE Resolved(IF svc = "normalizing"
                      THEN NormalizingResult(result, text, norm)
                      ELSE result)

\* C13: translate calls are independent: in every interleaving of
\* concurrent calls, what a call passes to its collaborators and how it
\* settles are determined by its own input and its own collaborators'
\* answers, exactly as if it had run alone.
C13_CallsIndependent ==
    \A c \in AllCalls :
        /\ pc[c] = "settled" =>
               outcome[c] = AloneOutcome(service[c], rawText[c],
                                         llmOutcome[c], dictOutcome[c])
        /\ \A n \in DOMAIN llmCalls[c] :
               llmCalls[c][n] = IF service[c] = "normalizing"
                                THEN normalize(rawText[c]).iast
                                ELSE rawText[c]
        /\ \A n \in DOMAIN dictCalls[c] :
               dictCalls[c][n] = ExtractWords(llmOutcome[c].value)

C13_Witness ==
    /\ NumCalls >= 2
    /\ Returned(1)
    /\ Returned(2)
    /\ service[1] # service[2]
    /\ rawText[1] # rawText[2]
    /\ llmOutcome[1] # llmOutcome[2]
    /\ DictFailed(1)
    /\ DictSucceeded(2)
    /\ Result(1) # Result(2)

\* The lines of text, read off the positions of its line breaks: a line
\* starts at position 0 or right after a break and runs up to the next
\* break or the end of the text.
LineStarts(text) == {b \in 0..Len(text) : b = 0 \/ text[b] = CP_NEWLINE}

LineEnd(text, b) ==
    CHOOSE e \in (b + 1)..(Len(text) + 1) :
        /\ e = Len(text) + 1 \/ text[e] = CP_NEWLINE
        /\ \A i \in (b + 1)..(e - 1) : text[i] # CP_NEWLINE

LineAt(text, b) == SubSeq(text, b + 1, LineEnd(text, b) - 1)

\* The lines of text that hold at least one non-white-space code point, in
\* the order in which they occur.
KeptLines(text) ==
    LET kept == {b \in LineStarts(text) :
                    \E i \in DOMAIN LineAt(text, b) : ~isWhiteSpace(LineAt(text, b)[i])}
        nth(k) == CHOOSE b \in kept : Cardinality({x \in kept : x < b}) = k - 1
    IN  [k \in 1..Cardinality(kept) |-> LineAt(text, nth(k))]

ScriptTypes == {"devanagari", "iast", "mixed"}
HasDevanagari(text) == \E i \in DOMAIN text : text[i] \in 2304..2431
HasLatin(text) == \E i \in DOMAIN text : isLatin(text[i])

\* C14: detect(s) returns 'mixed' if and only if s holds at least one
\* code point of U+0900..U+097F and at least one Latin-script code point,
\* wherever in s they stand.
C14_MixedIffBothScripts ==
    probe.op = "detect" =>
        (probe.returned = "mixed" <=> HasDevanagari(probe.arg) /\ HasLatin(probe.arg))

C14_Witness ==
    /\ probe.op = "detect"
    /\ probe.arg = <<CP_LATIN_A, CP_DIGIT_ONE, CP_DEVANAGARI_KA>>
    /\ probe.returned = "mixed"

\* C15: detect returns one of the three script types for every string; for
\* a string that is not mixed it returns 'devanagari' exactly when a
\* Devanagari code point occurs and 'iast' otherwise, so the empty string
\* and strings of neutral code points only are 'iast'.
C15_DetectTotalDefaultIast ==
    probe.op = "detect" =>
        /\ probe.returned \in ScriptTypes
        /\ ~(HasDevanagari(probe.arg) /\ HasLatin(probe.arg)) =>
               probe.returned = IF HasDevanagari(probe.arg) THEN "devanagari" ELSE "iast"
        /\ ~HasDevanagari(probe.arg) /\ ~HasLatin(probe.arg) => probe.returned = "iast"

C15_Witness ==
    /\ probe.op = "detect"
    /\ probe.arg = <<CP_DIGIT_ONE, CP_CARRIAGE_RETURN>>
    /\ probe.returned = "iast"

\* C16: normalize on a mixed-script string returns the failure value with
\* the one fixed message, and makes no call to the converter.
C16_MixedIsFixedFailure ==
    probe.op = "normalize" /\ HasDevanagari(probe.arg) /\ HasLatin(probe.arg) =>
        /\ probe.returned = [success |-> FALSE, error |-> MIXED_SCRIPT_ERROR]
        /\ probe.toIastCalls = << >>

C16_Witness ==
    /\ probe.op = "normalize"
    /\ probe.arg = <<CP_DEVANAGARI_KA, CP_NEWLINE, CP_LATIN_A>>
    /\ ~probe.returned.success

\* C17: normalize on 'iast' text returns success with iast identical to the
\* input and originalScript 'iast', the converter not called; on
\* 'devanagari' text it returns success with iast the converter's output
\* for the whole text, from one call, and originalScript 'devanagari'.
C17_PassThroughOrConvert ==
    probe.op = "normalize" =>
        /\ detect(probe.arg) = "iast" =>
               /\ probe.returned = [success |-> TRUE, iast |-> probe.arg,
                                    originalScript |-> "iast"]
               /\ probe.toIastCalls = << >>
        /\ detect(probe.arg) = "devanagari" =>
               /\ probe.returned = [success |-> TRUE, iast |-> toIast(probe.arg),
                                    originalScript |-> "devanagari"]
               /\ probe.toIastCalls = <<probe.arg>>

C17_Witness ==
    /\ probe.op = "normalize"
    /\ probe.arg = <<CP_LATIN_A, CP_CARRIAGE_RETURN, CP_NEWLINE>>
    /\ probe.returned.iast = probe.arg
    /\ probe.returned.originalScript = "iast"

C17_WitnessDevanagari ==
    /\ probe.op = "normalize"
    /\ probe.arg = <<CP_DEVANAGARI_KA, CP_NEWLINE, CP_DEVANAGARI_KA>>
    /\ probe.returned.originalScript = "devanagari"
    /\ probe.returned.iast # probe.arg

\* The elements of originalText and of iastText of the returned
\* TranslationResults.
ReturnedLines ==
    UNION {{Result(c).originalText[i] : i \in DOMAIN Result(c).originalText}
               \cup {Result(c).iastText[i] : i \in DOMAIN Result(c).iastText} :
           c \in {k \in AllCalls : Returned(k)}}

\* C19 as stated: every element of originalText and of iastText in a
\* returned TranslationResult is non-empty and has no leading or trailing
\* white space, a carriage return left by a CRLF line break included.
C19_LinesTrimmed ==
    \A line \in ReturnedLines :
        /\ line # << >>
        /\ ~isWhiteSpace(line[1])
        /\ ~isWhiteSpace(line[Len(line)])

\* C19, amended: every element of originalText and of iastText in a
\* returned TranslationResult holds no line feed and at least one code
\* point that is not white space; white space at its ends, a carriage
\* return before the line feed included, is kept.
C19_LinesNonBlank ==
    \A line \in ReturnedLines :
        /\ line # << >>
        /\ \A i \in DOMAIN line : line[i] # CP_NEWLINE
        /\ \E i \in DOMAIN line : ~isWhiteSpace(line[i])

C19_Witness ==
    /\ Returned(1)
    /\ rawText[1] = <<CP_LATIN_A, CP_CARRIAGE_RETURN, CP_NEWLINE>>
    /\ Result(1).originalText = <<<<CP_LATIN_A, CP_CARRIAGE_RETURN>>>>
    /\ Result(1).iastText = <<<<CP_LATIN_A, CP_CARRIAGE_RETURN>>>>

\* The reply holds no text for the parser: no content, no content
\* blocks, or no block of type text.
NoTextBlock(response) ==
    \/ "content" \notin DOMAIN response
    \/ \A i \in DOMAIN response.content : response.content[i].type # "text"

FirstText(response) ==
    LET blocks == response.content
    IN  blocks[CHOOSE i \in DOMAIN blocks :
                   /\ blocks[i].type = "text"
                   /\ \A j \in 1..(i - 1) : blocks[j].type # "text"].text

\* The documents with their JSON texts; text is the JSON text of one of
\* the documents, and the document it is the text of.
JsonTexts == {<<JSON_stringify(document), document>> : document \in ModelDocuments}
IsJsonText(text) == \E pair \in JsonTexts : pair[1] = text
DocumentOf(text) == (CHOOSE pair \in JsonTexts : pair[1] = text)[2]

HasWordsArray(document) ==
    /\ document.type = "object"
    /\ \E i \in DOMAIN document.members :
           /\ document.members[i][1] = <<"words">>
           /\ document.members[i][2].type = "array"

Contains(message, fragment) ==
    \E i \in 0..(Len(message) - Len(fragment)) :
        SubSeq(message, i + 1, i + Len(fragment)) = fragment

\* C20: the parser's failures carry four pairwise distinct messages, and
\* the first failing stage decides which: no content block or no text block
\* gives the empty-response message; text that is not JSON gives the
\* parse-failure message; JSON that is not an object with an array `words`
\* gives a message containing "missing words array"; only then can an entry
\* fail.
C20_FailureByFirstFailingStage ==
    probe.op = "parseResponse" =>
        LET thrown(message) == probe.outcome = Throw(ClaudeLlmError(message))
        IN  /\ Cardinality({EMPTY_RESPONSE_MESSAGE, PARSE_FAILURE_MESSAGE,
                            INVALID_STRUCTURE_MESSAGE, INVALID_ENTRY_MESSAGE}) = 4
            /\ IF NoTextBlock(probe.arg)
               THEN thrown(EMPTY_RESPONSE_MESSAGE)
               ELSE IF ~IsJsonText(extractJson(FirstText(probe.arg)))
               THEN thrown(PARSE_FAILURE_MESSAGE)
               ELSE IF ~HasWordsArray(DocumentOf(extractJson(FirstText(probe.arg))))
               THEN /\ thrown(INVALID_STRUCTURE_MESSAGE)
                    /\ Contains(probe.outcome.error.message, <<"missing", "words", "array">>)
               ELSE probe.outcome.status = "return" \/ thrown(INVALID_ENTRY_MESSAGE)

C20_Witness ==
    /\ probe.op = "parseResponse"
    /\ probe.arg = [content |-> <<TextBlock(<<"{", QUOTE, "notWords", QUOTE, ":", "[", "]", "}">>)>>]
    /\ probe.outcome = Throw(ClaudeLlmError(INVALID_STRUCTURE_MESSAGE))

\* The JSON document the parser reads from a reply that has passed the
\* presence, parse and shape stages, and the elements of its words array.
ReachesEntryStage(response) ==
    /\ ~NoTextBlock(response)
    /\ IsJsonText(extractJson(FirstText(response)))
    /\ HasWordsArray(DocumentOf(extractJson(FirstText(response))))

MemberValue(object, key) ==
    object.members[CHOOSE i \in DOMAIN object.members : object.members[i][1] = key][2]

WordsOf(response) ==
    MemberValue(DocumentOf(extractJson(FirstText(response))), <<"words">>).items

WellFormedEntry(element) ==
    /\ element.type = "object"
    /\ \A key \in {<<"word">>, <<"grammaticalForm">>, <<"meanings">>} :
           \E i \in DOMAIN element.members : element.members[i][1] = key

\* C21: entry validation is fail-fast and drops nothing: if any element of
\* the words array is not an object with word, grammaticalForm and meanings,
\* the parse fails with the invalid-entry message and returns no entries;
\* otherwise the result has one WordEntry per element, in the array's order.
C21_EntriesAllOrNothing ==
    probe.op = "parseResponse" /\ ReachesEntryStage(probe.arg) =>
        LET elements == WordsOf(probe.arg)
        IN  IF \E i \in DOMAIN elements : ~WellFormedEntry(elements[i])
            THEN probe.outcome = Throw(ClaudeLlmError(INVALID_ENTRY_MESSAGE))
            ELSE /\ probe.outcome.status = "return"
                 /\ Len(probe.outcome.value.words) = Len(elements)
                 /\ \A i \in DOMAIN elements :
                        probe.outcome.value.words[i].word =
                            StringOf(MemberValue(elements[i], <<"word">>))

C21_Witness ==
    /\ probe.op = "parseResponse"
    /\ ReachesEntryStage(probe.arg)
    /\ WordsOf(probe.arg) = <<ENTRY_PLAIN, ENTRY_NO_MEANINGS>>
    /\ probe.outcome = Throw(ClaudeLlmError(INVALID_ENTRY_MESSAGE))

C21_WitnessInOrder ==
    /\ probe.op = "parseResponse"
    /\ ReachesEntryStage(probe.arg)
    /\ WordsOf(probe.arg) = <<ENTRY_NOTE, ENTRY_PLAIN>>
    /\ probe.outcome.status = "return"
    /\ probe.outcome.value.words[1].word = <<"yoga">>
    /\ probe.outcome.value.words[2].word = <<"atha">>

\* text is payload inside a fenced block: with or without the json tag,
\* with or without prose around the block.
IsFencedFormOf(text, payload) ==
    \/ text = <<FENCE, "json", SPACE>> \o payload \o <<SPACE, FENCE>>
    \/ text = <<FENCE, SPACE>> \o payload \o <<FENCE>>
    \/ text = PROSE \o <<SPACE, FENCE, "json", SPACE>> \o payload
                  \o <<SPACE, FENCE, SPACE>> \o PROSE

RawReply(document) == [content |-> <<TextBlock(JSON_stringify(document))>>]

\* C22: a reply that holds a JSON payload in a fenced block, tagged json or
\* not, with or without prose around it, parses to the same list of
\* WordEntry as the reply that is the bare payload.
C22_FencedParsesAsRaw ==
    probe.op = "parseResponse" /\ ~NoTextBlock(probe.arg) =>
        \A document \in ModelDocuments :
            IsFencedFormOf(FirstText(probe.arg), JSON_stringify(document)) =>
                LET raw == parseResponse(RawReply(document))
                IN  raw.status = "return" \/ probe.outcome.status = "return" =>
                        /\ raw.status = "return"
                        /\ probe.outcome.status = "return"
                        /\ probe.outcome.value.words = raw.value.words

\* A string of the program: a sequence of tokens.
IsText(value) == \A i \in DOMAIN value : value[i] \in STRING

\* C23: in every WordEntry the parser returns, meanings is present and is a
\* list of strings: a list in the source is mapped element by element, with
\* length and order kept, to String of the element, and any other source
\* value becomes the one-element list of its String; word and
\* grammaticalForm are the Strings of their source values.
C23_MeaningsListOfStrings ==
    probe.op = "parseResponse" /\ probe.outcome.status = "return" =>
        LET elements == WordsOf(probe.arg)
            entries == probe.outcome.value.words
        IN  \A i \in DOMAIN entries :
                LET source == MemberValue(elements[i], <<"meanings">>)
                IN  /\ "meanings" \in DOMAIN entries[i]
                    /\ IF source.type = "array"
                       THEN /\ Len(entries[i].meanings) = Len(source.items)
                            /\ \A k \in DOMAIN source.items :
                                   entries[i].meanings[k] = StringOf(source.items[k])
                       ELSE entries[i].meanings = <<StringOf(source)>>
                    /\ \A k \in DOMAIN entries[i].meanings : IsText(entries[i].meanings[k])
                    /\ entries[i].word = StringOf(MemberValue(elements[i], <<"word">>))
                    /\ entries[i].grammaticalForm =
                           StringOf(MemberValue(elements[i], <<"grammaticalForm">>))
                    /\ IsText(entries[i].word)
                    /\ IsText(entries[i].grammaticalForm)

C23_Witness ==
    /\ probe.op = "parseResponse"
    /\ probe.outcome.status = "return"
    /\ WordsOf(probe.arg) = <<ENTRY_COERCED, ENTRY_NOTE>>
    /\ probe.outcome.value.words[1].word = <<"1">>
    /\ probe.outcome.value.words[1].grammaticalForm = <<"null">>
    /\ probe.outcome.value.words[1].meanings = << <<"now", SPACE, "then">> >>
    /\ probe.outcome.value.words[2].meanings = << <<"union">>, <<"1">> >>

HasMember(object, key) == \E i \in DOMAIN object.members : object.members[i][1] = key

\* C24: when an element of the model's words array supplies a
\* contextualNote, the WordEntry the parser returns for it carries the same
\* contextualNote unchanged; when it supplies none, the WordEntry has no
\* contextualNote.
C24_ContextualNotePassesThrough ==
    probe.op = "parseResponse" /\ probe.outcome.status = "return" =>
        LET elements == WordsOf(probe.arg)
            entries == probe.outcome.value.words
        IN  \A i \in DOMAIN entries :
                IF HasMember(elements[i], <<"contextualNote">>)
                THEN /\ "contextualNote" \in DOMAIN entries[i]
                     /\ entries[i].contextualNote =
                            MemberValue(elements[i], <<"contextualNote">>).chars
                ELSE "contextualNote" \notin DOMAIN entries[i]

\* C25 (the parser's part): when the parsed model object holds a list of
\* alternative translations, the parser returns that list alongside the
\* word entries; the field is absent only when the model supplied none.
C25_AlternativeTranslationsReturned ==
    probe.op = "parseResponse" /\ probe.outcome.status = "return" =>
        LET document == DocumentOf(extractJson(FirstText(probe.arg)))
        IN  IF HasMember(document, <<"alternativeTranslations">>)
            THEN /\ "alternativeTranslations" \in DOMAIN probe.outcome.value
                 /\ probe.outcome.value.alternativeTranslations =
                        [i \in DOMAIN MemberValue(document, <<"alternativeTranslations">>).items |->
                            MemberValue(document, <<"alternativeTranslations">>).items[i].chars]
            ELSE "alternativeTranslations" \notin DOMAIN probe.outcome.value

\* C26: translateSutra rejects with a ClaudeLlmError only; a failure of
\* the API call that is not one is rethrown with the message 'Failed to
\* translate sutra: ' followed by the original message; a failure of the
\* parser keeps its own category message and is not wrapped again.
C26_RejectionsAreClaudeLlmErrors ==
    probe.op = "translateSutra" /\ probe.outcome.status = "rejected" =>
        /\ probe.outcome.error.name = "ClaudeLlmError"
        /\ probe.create.status = "rejected" /\ IsErrorInstance(probe.create.error)
               /\ probe.create.error.name # "ClaudeLlmError" =>
               probe.outcome.error.message =
                   <<"Failed", "to", "translate", "sutra:">> \o probe.create.error.message
        /\ probe.create.status = "resolved" =>
               probe.outcome.error.message \in
                   {EMPTY_RESPONSE_MESSAGE, PARSE_FAILURE_MESSAGE,
                    INVALID_STRUCTURE_MESSAGE, INVALID_ENTRY_MESSAGE}

C26_Witness ==
    /\ probe.op = "translateSutra"
    /\ probe.create = Resolved([content |-> <<TextBlock(PROSE)>>])
    /\ probe.outcome = Rejected(ClaudeLlmError(PARSE_FAILURE_MESSAGE))

C26_WitnessApiError ==
    /\ probe.op = "translateSutra"
    /\ probe.create.status = "rejected"
    /\ probe.outcome = Rejected(ClaudeLlmError(
           <<"Failed", "to", "translate", "sutra:", "API", "rate", "limit", "exceeded">>))

\* C30: whenever the whole trimmed text of the reply is valid JSON holding
\* an object with a words array of well-formed entries, the parser accepts
\* it and returns those entries, whatever its strings hold, triple backticks
\* included.
C30_ValidUnfencedPayloadAccepted ==
    probe.op = "parseResponse" /\ ~NoTextBlock(probe.arg) =>
        LET text == trimTokens(FirstText(probe.arg))
        IN  /\ IsJsonText(text)
            /\ HasWordsArray(DocumentOf(text))
            /\ \A i \in DOMAIN MemberValue(DocumentOf(text), <<"words">>).items :
                   WellFormedEntry(MemberValue(DocumentOf(text), <<"words">>).items[i])
            => /\ probe.outcome.status = "return"
               /\ Len(probe.outcome.value.words) =
                      Len(MemberValue(DocumentOf(text), <<"words">>).items)
               /\ \A i \in DOMAIN probe.outcome.value.words :
                      probe.outcome.value.words[i].word =
                          StringOf(MemberValue(
                              MemberValue(DocumentOf(text), <<"words">>).items[i],
                              <<"word">>))

(***************************************************************************)
(* PromptLoader.  loader.cache is the loader's Map, loader.files the       *)
(* .txt files of its prompts directory (prompt name to content),           *)
(* loader.reads the readFileSync calls made so far, loader.notFound the    *)
(* names a call has failed for, loader.call the last call of loadPrompt.   *)
(***************************************************************************)
PromptNames == {"translate", "cached"}

PromptContents == {"", "Cached prompt: {{sutra}}", "Changed prompt"}

\* map.set(key, value) on a copy of the map
MapSet(map, key, value) ==
    [k \in DOMAIN map \cup {key} |-> IF k = key THEN value ELSE map[k]]

PromptNotFoundError(promptName) ==
    [name |-> "PromptNotFoundError",
     message |-> <<"Prompt file not found: ", promptName, ".txt">>]

\* the loader after a loadPrompt that takes an empty cached string for a miss
loadPromptTruthyCache(l, promptName) ==
    IF promptName \in DOMAIN l.cache /\ l.cache[promptName] # ""
    THEN [l EXCEPT !.call = [name |-> promptName,
                             result |-> Return(l.cache[promptName])]]
    ELSE IF promptName \notin DOMAIN l.files
    THEN [l EXCEPT !.call = [name |-> promptName,
                             result |-> Throw(PromptNotFoundError(promptName))],
                   !.notFound = @ \cup {promptName}]
    ELSE [l EXCEPT !.reads = Append(@, [name |-> promptName,
                                        content |-> l.files[promptName]]),
                   !.cache = MapSet(@, promptName, l.files[promptName]),
                   !.call = [name |-> promptName,
                             result |-> Return(l.files[promptName])]]

\* the loader after loadPrompt(promptName), loader.call holding the result
loadPrompt(l, promptName) ==
    IF promptName \in DOMAIN l.cache
    THEN [l EXCEPT !.call = [name |-> promptName,
                             result |-> Return(l.cache[promptName])]]
    ELSE IF promptName \notin DOMAIN l.files
    THEN [l EXCEPT !.call = [name |-> promptName,
                             result |-> Throw(PromptNotFoundError(promptName))],
                   !.notFound = @ \cup {promptName}]
    ELSE [l EXCEPT !.reads = Append(@, [name |-> promptName,
                                        content |-> l.files[promptName]]),
                   !.cache = MapSet(@, promptName, l.files[promptName]),
                   !.call = [name |-> promptName,
                             result |-> Return(l.files[promptName])]]

InitLoader ==
    /\ InitCalls
    /\ probe = NotProbed(<< >>)
    /\ loader \in {NewPromptLoader(files) :
                   files \in UNION {[names -> PromptContents] :
                                       names \in SUBSET PromptNames}}
    /\ ocr = NoImageCall([mimetype |-> "none", filename |-> "none"], FALSE)

\* loader.loadPrompt(promptName)
LoadPrompt(promptName) ==
    /\ loader' = loadPrompt(loader, promptName)
    /\ UNCHANGED <<callVars, probe, ocr>>

\* fs.writeFileSync(path.join(promptsDir, promptName + '.txt'), content)
WriteFile(promptName, content) ==
    /\ loader' = [loader EXCEPT !.files = MapSet(@, promptName, content)]
    /\ UNCHANGED <<callVars, probe, ocr>>

\* the file promptName + '.txt' is removed from the directory
RemoveFile(promptName) ==
    /\ promptName \in DOMAIN loader.files
    /\ loader' = [loader EXCEPT !.files = [name \in DOMAIN @ \ {promptName} |-> @[name]]]
    /\ UNCHANGED <<callVars, probe, ocr>>

NextLoader ==
    \/ \E promptName \in PromptNames : LoadPrompt(promptName)
    \/ \E promptName \in PromptNames, content \in PromptContents :
           WriteFile(promptName, content)
    \/ \E promptName \in PromptNames : RemoveFile(promptName)

SpecLoader == InitLoader /\ [][NextLoader]_vars

HasBeenRead(l, promptName) ==
    \E i \in DOMAIN l.reads : l.reads[i].name = promptName

FirstRead(l, promptName) ==
    l.reads[CHOOSE i \in DOMAIN l.reads :
                /\ l.reads[i].name = promptName
                /\ \A j \in 1..(i - 1) : l.reads[j].name # promptName].content

\* a step that is a call of loadPrompt: the directory is left as it was
IsLoadStep == loader' # loader /\ loader'.files = loader.files

\* C27: once loadPrompt(name) has returned a content, every later
\* loadPrompt(name) returns that content and reads no file, whatever has
\* become of the file; a call that finds no file throws PromptNotFoundError
\* and leaves the cache as it was, and a call for a name never loaded whose
\* file exists returns the file's content, also after earlier failures.
C27_LoadPromptCaches ==
    [][IsLoadStep =>
          LET promptName == loader'.call.name
              result == loader'.call.result
          IN  IF HasBeenRead(loader, promptName)
              THEN /\ result = Return(FirstRead(loader, promptName))
                   /\ loader'.reads = loader.reads
              ELSE IF promptName \in DOMAIN loader.files
              THEN /\ result = Return(loader.files[promptName])
                   /\ loader'.reads =
                          Append(loader.reads,
                                 [name |-> promptName,
                                  content |-> loader.files[promptName]])
              ELSE /\ result = Throw(PromptNotFoundError(promptName))
                   /\ loader'.cache = loader.cache
                   /\ loader'.reads = loader.reads]_vars

\* a call failed for the name, a later one succeeded once the file existed,
\* and the last call returned that first content though the file has since
\* been changed or removed
C27_Witness ==
    /\ loader.call # None
    /\ loader.call.name \in loader.notFound
    /\ HasBeenRead(loader, loader.call.name)
    /\ loader.call.result = Return(FirstRead(loader, loader.call.name))
    /\ \/ loader.call.name \notin DOMAIN loader.files
       \/ loader.files[loader.call.name] # FirstRead(loader, loader.call.name)
    /\ Len(loader.reads) = 1

(***************************************************************************)
(* OcrTranslationService.translateFromImage.  A buffer is the sequence of  *)
(* its bytes, a confidence is counted in hundredths, ocr.calls lists the   *)
(* calls made to the image storage, the OCR engine and the translation     *)
(* service, ocr.completion is how the try block completed, ocr.logged what *)
(* console.error was given.                                                *)
(***************************************************************************)
supportedFormats ==
    <<"image/png", "image/jpeg", "image/jpg", "image/webp", "image/tiff">>

\* String.prototype.toLowerCase on the mimetypes of the model
toLowerCase(string) ==
    CASE string = "IMAGE/PNG" -> "image/png"
      [] string = "Image/Jpg" -> "image/jpg"
      [] string = "IMAGE/GIF" -> "image/gif"
      [] OTHER -> string

Uploads ==
    {[mimetype |-> mimetype, filename |-> "sutra.png"] :
        mimetype \in {"image/png", "IMAGE/PNG", "image/jpeg", "Image/Jpg",
                      "image/webp", "image/tiff", "image/gif", "IMAGE/GIF",
                      "application/pdf"}}

maxSizeBytes == 10 * 1024 * 1024

Handles ==
    {[id |-> "stored-image", size |-> size] :
        size \in {0, maxSizeBytes, maxSizeBytes + 1}}

\* Buffer.from(bytes)
Buffer(bytes) == [bytes |-> bytes]

\* PNG, JPEG, the JPEG signature alone, WEBP, a RIFF file that is not WEBP,
\* a RIFF header alone, TIFF in both byte orders, GIF, an empty file
Buffers ==
    {Buffer(<<137, 80, 78, 71, 13, 10, 26, 10>>),
     Buffer(<<255, 216, 255, 224>>),
     Buffer(<<255, 216, 255>>),
     Buffer(<<82, 73, 70, 70, 36, 0, 0, 0, 87, 69, 66, 80>>),
     Buffer(<<82, 73, 70, 70, 36, 0, 0, 0, 87, 65, 86, 69>>),
     Buffer(<<82, 73, 70, 70>>),
     Buffer(<<73, 73, 42, 0>>),
     Buffer(<<77, 77, 0, 42>>),
     Buffer(<<71, 73, 70, 56>>),
     Buffer(<< >>)}

\* buffer[index], indices counted from 0
ByteAt(buffer, index) == buffer.bytes[index + 1]

\* a check that looks at the length only
isValidImageBufferLengthOnly(buffer) == Len(buffer.bytes) >= 4

isValidImageBuffer(buffer) ==
    IF Len(buffer.bytes) < 4 THEN FALSE
    ELSE IF /\ ByteAt(buffer, 0) = 137 /\ ByteAt(buffer, 1) = 80
            /\ ByteAt(buffer, 2) = 78 /\ ByteAt(buffer, 3) = 71
    THEN TRUE
    ELSE IF ByteAt(buffer, 0) = 255 /\ ByteAt(buffer, 1) = 216 /\ ByteAt(buffer, 2) = 255
    THEN TRUE
    ELSE IF /\ Len(buffer.bytes) >= 12
            /\ ByteAt(buffer, 0) = 82 /\ ByteAt(buffer, 1) = 73
            /\ ByteAt(buffer, 2) = 70 /\ ByteAt(buffer, 3) = 70
            /\ ByteAt(buffer, 8) = 87 /\ ByteAt(buffer, 9) = 69
            /\ ByteAt(buffer, 10) = 66 /\ ByteAt(buffer, 11) = 80
    THEN TRUE
    ELSE IF \/ /\ ByteAt(buffer, 0) = 73 /\ ByteAt(buffer, 1) = 73
               /\ ByteAt(buffer, 2) = 42 /\ ByteAt(buffer, 3) = 0
            \/ /\ ByteAt(buffer, 0) = 77 /\ ByteAt(buffer, 1) = 77
               /\ ByteAt(buffer, 2) = 0 /\ ByteAt(buffer, 3) = 42
    THEN TRUE
    ELSE FALSE

MIN_CONFIDENCE == 10
WARNING_CONFIDENCE == 70

OcrResults ==
    {[text |-> "satyameva jayate", confidence |-> confidence] :
        confidence \in {0, 9, 10, 69, 70, 100}}

ImageTranslations ==
    {[originalText |-> "satyameva jayate", iastText |-> <<"satyameva jayate">>, words |-> << >>],
     [originalText |-> "satyameva jayate", iastText |-> <<"satyameva jayate">>, words |-> << >>,
      alternativeTranslations |-> <<"Truth alone triumphs">>]}

JsError(message) == [name |-> "Error", message |-> message]

UnsupportedFormatError(mimetype) ==
    JsError(<<"Unsupported image format: ", mimetype,
              ". Supported formats: PNG, JPG, JPEG, WEBP, TIFF">>)

TooLargeError(size) ==
    JsError(<<"Image file too large: ", ToString(size),
              " bytes. Maximum allowed: 10MB">>)

INVALID_IMAGE_ERROR == JsError(<<"Invalid or corrupted image file">>)
NO_TEXT_ERROR == JsError(<<"No readable text detected in image">>)

StorageErrors == {JsError(<<"Storage unavailable">>)}
OcrErrors == {JsError(<<"OCR engine unavailable">>)}
ImageTranslationErrors ==
    {[name |-> "TranslationError", message |-> <<"LLM service unavailable">>]}
CleanupErrors == {JsError(<<"Cleanup failed">>)}

\* the promise of an async function whose body completed
Settle(completion) ==
    IF completion.status = "return"
    THEN Resolved(completion.value)
    ELSE Rejected(completion.error)

ImageCall(op, arg) == [op |-> op, arg |-> arg]

\* the finally block that runs cleanup only after a try block that threw
EnterFinallyAfterThrowOnly(o, completion) ==
    IF o.handle # None /\ completion.status = "throw"
    THEN [o EXCEPT !.completion = completion,
                   !.calls = Append(@, ImageCall("cleanup", o.handle)),
                   !.pc = "cleanup"]
    ELSE [o EXCEPT !.completion = completion,
                   !.pc = "done",
                   !.outcome = Settle(completion)]

\* the try block completed: the finally block, up to its await if it has one
EnterFinally(o, completion) ==
    IF o.handle # None
    THEN [o EXCEPT !.completion = completion,
                   !.calls = Append(@, ImageCall("cleanup", o.handle)),
                   !.pc = "cleanup"]
    ELSE [o EXCEPT !.completion = completion,
                   !.pc = "done",
                   !.outcome = Settle(completion)]

\* the result object built from the translation and the OCR result
AugmentedResult(translation, ocrResult) ==
    LET result == [ocrConfidence |-> ocrResult.confidence,
                   extractedText |-> ocrResult.text] @@ translation
    IN  IF ocrResult.confidence < WARNING_CONFIDENCE
        THEN [ocrWarnings |-> <<"Low OCR confidence - please verify extracted text">>]
                 @@ result
        ELSE result

InitOcr ==
    /\ InitCalls
    /\ probe = NotProbed(<< >>)
    /\ loader = NewPromptLoader(EmptyMap)
    /\ ocr \in {NoImageCall(upload, isMock) :
                    upload \in Uploads, isMock \in BOOLEAN}

\* translateFromImage(upload), up to the await of imageStorage.store
CallTranslateFromImage ==
    /\ ocr.pc = "idle"
    /\ ocr' =
         IF \A i \in DOMAIN supportedFormats :
                supportedFormats[i] # toLowerCase(ocr.upload.mimetype)
         THEN EnterFinally([ocr EXCEPT !.outcome = Pending],
                           Throw(UnsupportedFormatError(ocr.upload.mimetype)))
         ELSE [ocr EXCEPT !.outcome = Pending,
                          !.calls = Append(@, ImageCall("store", ocr.upload)),
                          !.pc = "store"]
    /\ UNCHANGED <<callVars, probe, loader>>

\* imageStorage.store resolves: the size check, up to the await of retrieve
StoreResolve(handle) ==
    /\ ocr.pc = "store"
    /\ ocr' =
         LET stored == [ocr EXCEPT !.handle = handle]
         IN  IF handle.size > maxSizeBytes
             THEN EnterFinally(stored, Throw(TooLargeError(handle.size)))
             ELSE [stored EXCEPT !.calls = Append(@, ImageCall("retrieve", handle)),
                                 !.pc = "retrieve"]
    /\ UNCHANGED <<callVars, probe, loader>>

StoreReject(error) ==
    /\ ocr.pc = "store"
    /\ ocr' = EnterFinally(ocr, Throw(error))
    /\ UNCHANGED <<callVars, probe, loader>>

\* imageStorage.retrieve resolves: the magic byte check, the filename for a
\* MockOcrEngine, up to the await of ocrEngine.extractText
RetrieveResolve(buffer) ==
    /\ ocr.pc = "retrieve"
    /\ ocr' =
         LET retrieved == [ocr EXCEPT !.buffer = buffer]
             extractText == ImageCall("extractText", buffer)
         IN  IF ~isValidImageBuffer(buffer)
             THEN EnterFinally(retrieved, Throw(INVALID_IMAGE_ERROR))
             ELSE [retrieved EXCEPT
                      !.calls = IF ocr.isMock
                                THEN @ \o <<ImageCall("setFilename", ocr.upload.filename),
                                            extractText>>
                                ELSE Append(@, extractText),
                      !.pc = "extract"]
    /\ UNCHANGED <<callVars, probe, loader>>

RetrieveReject(error) ==
    /\ ocr.pc = "retrieve"
    /\ ocr' = EnterFinally(ocr, Throw(error))
    /\ UNCHANGED <<callVars, probe, loader>>

\* ocrEngine.extractText resolves: the confidence check, up to the await of
\* translationService.translate
ExtractResolve(ocrResult) ==
    /\ ocr.pc = "extract"
    /\ ocr' =
         LET extracted == [ocr EXCEPT !.ocrResult = ocrResult]
         IN  IF ocrResult.confidence < MIN_CONFIDENCE
             THEN EnterFinally(extracted, Throw(NO_TEXT_ERROR))
             ELSE [extracted EXCEPT
                      !.calls = Append(@, ImageCall("translate", ocrResult.text)),
                      !.pc = "translate"]
    /\ UNCHANGED <<callVars, probe, loader>>

ExtractReject(error) ==
    /\ ocr.pc = "extract"
    /\ ocr' = EnterFinally(ocr, Throw(error))
    /\ UNCHANGED <<callVars, probe, loader>>

\* translationService.translate resolves: the result is built and returned
ImageTranslateResolve(translation) ==
    /\ ocr.pc = "translate"
    /\ ocr' = EnterFinally(ocr, Return(AugmentedResult(translation, ocr.ocrResult)))
    /\ UNCHANGED <<callVars, probe, loader>>

ImageTranslateReject(error) ==
    /\ ocr.pc = "translate"
    /\ ocr' = EnterFinally(ocr, Throw(error))
    /\ UNCHANGED <<callVars, probe, loader>>

\* imageStorage.cleanup resolves: the try block's completion takes effect
CleanupResolve ==
    /\ ocr.pc = "cleanup"
    /\ ocr' = [ocr EXCEPT !.pc = "done", !.outcome = Settle(ocr.completion)]
    /\ UNCHANGED <<callVars, probe, loader>>

\* imageStorage.cleanup rejects: .catch(console.error) logs the error
CleanupReject(error) ==
    /\ ocr.pc = "cleanup"
    /\ ocr' = [ocr EXCEPT !.pc = "done",
                          !.logged = Append(@, error),
                          !.outcome = Settle(ocr.completion)]
    /\ UNCHANGED <<callVars, probe, loader>>

NextOcr ==
    \/ CallTranslateFromImage
    \/ \E handle \in Handles : StoreResolve(handle)
    \/ \E error \in StorageErrors : StoreReject(error)
    \/ \E buffer \in Buffers : RetrieveResolve(buffer)
    \/ \E error \in StorageErrors : RetrieveReject(error)
    \/ \E ocrResult \in OcrResults : ExtractResolve(ocrResult)
    \/ \E error \in OcrErrors : ExtractReject(error)
    \/ \E translation \in ImageTranslations : ImageTranslateResolve(translation)
    \/ \E error \in ImageTranslationErrors : ImageTranslateReject(error)
    \/ CleanupResolve
    \/ \E error \in CleanupErrors : CleanupReject(error)

SpecOcr == InitOcr /\ [][NextOcr]_vars

CallsOf(op) == {i \in DOMAIN ocr.calls : ocr.calls[i].op = op}

ImageCallSettled == ocr.outcome.status \in {"resolved", "rejected"}

StoreSucceeded == ocr.handle # None

SupportedMimetype(mimetype) ==
    mimetype \in {"image/png", "IMAGE/PNG", "image/jpeg", "Image/Jpg",
                  "image/webp", "image/tiff"}

\* C28: once store has succeeded, cleanup is called at most once, with the
\* handle store returned and as the last call made, and it has been called
\* by the time the promise settles; the promise settles as the try block
\* completed, never with a cleanup error; for an unsupported mimetype
\* neither store nor cleanup is called.
C28_CleanupExactlyOnce ==
    /\ Cardinality(CallsOf("cleanup")) <= 1
    /\ \A i \in CallsOf("cleanup") :
           /\ StoreSucceeded
           /\ ocr.calls[i].arg = ocr.handle
           /\ i = Len(ocr.calls)
    /\ ImageCallSettled /\ StoreSucceeded => Cardinality(CallsOf("cleanup")) = 1
    /\ ImageCallSettled =>
           /\ ocr.outcome = Settle(ocr.completion)
           /\ ocr.outcome.status = "rejected" => ocr.outcome.error \notin CleanupErrors
    /\ ~SupportedMimetype(ocr.upload.mimetype) =>
           CallsOf("store") = {} /\ CallsOf("cleanup") = {}

\* translate resolved, cleanup failed, and the call resolved all the same
C28_Witness ==
    /\ ImageCallSettled
    /\ StoreSucceeded
    /\ CallsOf("translate") # {}
    /\ ocr.logged # << >>
    /\ ocr.outcome.status = "resolved"
    /\ Cardinality(CallsOf("cleanup")) = 1

\* cleanup ran once after a failed magic byte check
C28_WitnessAfterRejection ==
    /\ ImageCallSettled
    /\ ocr.buffer = Buffer(<<71, 73, 70, 56>>)
    /\ ocr.outcome = Rejected(INVALID_IMAGE_ERROR)
    /\ Cardinality(CallsOf("cleanup")) = 1

StartsWith(buffer, signature) ==
    /\ Len(buffer) >= Len(signature)
    /\ SubSeq(buffer, 1, Len(signature)) = signature

HasImageSignature(buffer) ==
    \/ StartsWith(buffer, <<137, 80, 78, 71>>)
    \/ StartsWith(buffer, <<255, 216, 255>>)
    \/ StartsWith(buffer, <<82, 73, 70, 70>>) /\ Len(buffer) >= 12
          /\ SubSeq(buffer, 9, 12) = <<87, 69, 66, 80>>
    \/ StartsWith(buffer, <<73, 73, 42, 0>>)
    \/ StartsWith(buffer, <<77, 77, 0, 42>>)

OpsCalled == [i \in DOMAIN ocr.calls |-> ocr.calls[i].op]

OpsBeforeCleanup ==
    IF CallsOf("cleanup") = {} THEN OpsCalled
    ELSE SubSeq(OpsCalled, 1, Len(OpsCalled) - 1)

IsPrefixOf(prefix, sequence) ==
    /\ Len(prefix) <= Len(sequence)
    /\ SubSeq(sequence, 1, Len(prefix)) = prefix

\* C29: the steps run in the order store, retrieve, extractText, translate;
\* translate is called only for a supported mimetype, a stored size of at
\* most 10MB, a buffer with an image signature and a confidence of at least
\* 0.1; when a check fails the try block throws at once, none of the later
\* steps is called, and the call settles rejected.
C29_ChecksBeforeTranslation ==
    /\ IsPrefixOf(OpsBeforeCleanup,
                  IF ocr.isMock
                  THEN <<"store", "retrieve", "setFilename", "extractText", "translate">>
                  ELSE <<"store", "retrieve", "extractText", "translate">>)
    /\ CallsOf("translate") # {} =>
           /\ SupportedMimetype(ocr.upload.mimetype)
           /\ ocr.handle # None /\ ocr.handle.size <= 10485760
           /\ ocr.buffer # None /\ HasImageSignature(ocr.buffer.bytes)
           /\ ocr.ocrResult # None /\ ocr.ocrResult.confidence >= 10
    /\ ocr.pc # "idle" /\ ~SupportedMimetype(ocr.upload.mimetype) =>
           /\ ocr.calls = << >>
           /\ ocr.outcome.status = "rejected"
    /\ ocr.handle # None /\ ocr.handle.size > 10485760 =>
           /\ OpsBeforeCleanup = <<"store">>
           /\ ocr.completion.status = "throw"
           /\ ImageCallSettled => ocr.outcome.status = "rejected"
    /\ ocr.buffer # None /\ ~HasImageSignature(ocr.buffer.bytes) =>
           /\ OpsBeforeCleanup = <<"store", "retrieve">>
           /\ ocr.completion.status = "throw"
           /\ ImageCallSettled => ocr.outcome.status = "rejected"
    /\ ocr.ocrResult # None /\ ocr.ocrResult.confidence < 10 =>
           /\ CallsOf("translate") = {}
           /\ ocr.completion.status = "throw"
           /\ ImageCallSettled => ocr.outcome.status = "rejected"

\* translate was called at the lowest confidence that passes, after all
\* four checks, for a mimetype written in capitals
C29_Witness ==
    /\ CallsOf("translate") # {}
    /\ ocr.upload.mimetype = "IMAGE/PNG"
    /\ ocr.handle.size = 10485760
    /\ ocr.buffer = Buffer(<<82, 73, 70, 70, 36, 0, 0, 0, 87, 69, 66, 80>>)
    /\ ocr.ocrResult.confidence = 10

\* a confidence just under the threshold: rejected, translate never called
C29_WitnessLowConfidence ==
    /\ ImageCallSettled
    /\ ocr.ocrResult # None
    /\ ocr.ocrResult.confidence = 9
    /\ ocr.outcome = Rejected(NO_TEXT_ERROR)
    /\ CallsOf("translate") = {}

====
